---- MODULE Spec2Model ----
(***************************************************************************)
(* Context cache, product matcher, conversation memory and chat endpoint    *)
(* of the customer support agent.                                          *)
(*                                                                         *)
(* Strings are sequences of one-character strings, so that substring,      *)
(* prefix, split and case conversion are computed as the code computes     *)
(* them.  A nullable value is a sequence of length at most one: None is    *)
(* JavaScript's null, Some(x) a present value.                             *)
(***************************************************************************)
EXTENDS Integers, Sequences, FiniteSets, TLC

VARIABLES
  clock,            \* Date.now()
  contextCache,     \* lib/contextCache: let contextCache: CachedContext | null
  pc,               \* per caller: position inside getCachedContextFiles
  callNow,          \* per caller: the local `now` of a suspended call
  ret,              \* result of the last step, a getCachedContextFiles step
  productIndex,     \* lib/productMatcher: let productIndex: ProductMatch[] | null
  indexLastUpdated, \* lib/productMatcher: let indexLastUpdated
  found,            \* result of the last step, a product query
  seen,             \* result of the last step, an introspection call
  firstAfterClear,  \* history: the first call since the last clearContextCache
  users,            \* the users table: the ids of its rows
  chats,            \* the chats table: its rows in insertion order
  req,              \* per handler: the ai-chat request it is serving
  op                \* the operation performed by the last step

vars == <<clock, contextCache, pc, callNow, ret, productIndex,
          indexLastUpdated, found, seen, firstAfterClear, users, chats, req,
          op>>

cacheVars == <<contextCache, pc, callNow>>
indexVars == <<productIndex, indexLastUpdated>>
chatVars == <<users, chats, req>>

None == <<>>
Some(x) == <<x>>

----------------------------------------------------------------------------
(* Time *)

CACHE_TTL == 5 * 60 * 1000
INDEX_CACHE_TTL == 10 * 60 * 1000

\* Number of clock steps explored.
MaxTicks == 5
\* Granularity of the clock: half a context TTL, so that both now = expires
\* and now - indexLastUpdated = INDEX_CACHE_TTL occur exactly.
TickStep == CACHE_TTL \div 2
\* Date.now() is milliseconds since the epoch: far larger than either TTL.
StartClock == 2 * INDEX_CACHE_TTL
MaxClock == StartClock + MaxTicks * TickStep

\* Number of concurrent callers (requests in flight).
NumCallers == 2
Callers == 1..NumCallers
\* Number of those that are request handlers, which also query the product
\* matcher (at most NumCallers).
NumHandlers == 1
Handlers == 1..NumHandlers

----------------------------------------------------------------------------
(* Context cache: lib/contextCache *)

\* The documents a loader can deliver (ContextFiles); product is filled in
\* below with catalog texts.
Doc(v, catalog) ==
  [product |-> catalog, contact |-> <<"c", v>>, privacy |-> <<"p", v>>,
   detail |-> <<"d", v>>]

\* `contextCache && now < contextCache.expires`
IsHitLe(cache, now) == cache # None /\ now <= cache[1].expires
IsHit(cache, now) == cache # None /\ now < cache[1].expires

\* the object literal assigned to contextCache
NewEntry(data, now) ==
  [data |-> data, lastModified |-> now, expires |-> now + CACHE_TTL]

\* `if (!freshData) { if (contextCache) return contextCache.data; return null }`
StaleOrNullNoFallback(cache) == None
StaleOrNull(cache) == IF cache # None THEN Some(cache[1].data) ELSE None

\* the cache after the loader has settled with `fresh` (None: null result)
CacheAfterLoadKeepsExpiry(cache, fresh, now) ==
  IF fresh = None THEN cache
  ELSE IF cache = None THEN Some(NewEntry(fresh[1], now))
  ELSE Some([cache[1] EXCEPT !.data = fresh[1], !.lastModified = now])
CacheAfterLoadDropOnFailure(cache, fresh, now) ==
  IF fresh = None THEN None ELSE Some(NewEntry(fresh[1], now))
CacheAfterLoadRenewsOnFailure(cache, fresh, now) ==
  IF fresh # None THEN Some(NewEntry(fresh[1], now))
  ELSE IF cache = None THEN None
  ELSE Some([cache[1] EXCEPT !.expires = now + CACHE_TTL])
CacheAfterLoad(cache, fresh, now) ==
  IF fresh = None THEN cache ELSE Some(NewEntry(fresh[1], now))

Returned(v) == [status |-> "returned", value |-> v]
Pending == [status |-> "pending", value |-> None]
Rejected == [status |-> "rejected", value |-> None]
NotCalled == [status |-> "none", value |-> None]

Label(name, p, outcome) == [name |-> name, proc |-> p, outcome |-> outcome]

\* firstAfterClear: NoClear when the cache was not cleared since the last call
\* began, Cleared between a clearContextCache and the next call, and the
\* call (FirstCall) while that next call waits for its loader; Untracked in
\* the specifications that do not record this history
Untracked == [phase |-> "untracked", proc |-> 0]
NoClear == [phase |-> "none", proc |-> 0]
Cleared == [phase |-> "cleared", proc |-> 0]
FirstCall(p) == [phase |-> "loading", proc |-> p]

----------------------------------------------------------------------------
(* Strings: the JavaScript string and array methods the code uses *)

Digits == <<"0","1","2","3","4","5","6","7","8","9">>
LowerCaseLetters == <<"a","b","c","d","e","f","g","h","i","j","k","l","m","n","o","p","q","r","s","t","u","v","w","x","y","z">>
UpperCaseLetters == <<"A","B","C","D","E","F","G","H","I","J","K","L","M","N","O","P","Q","R","S","T","U","V","W","X","Y","Z">>

Range(s) == {s[i] : i \in DOMAIN s}

\* \d, \w and \s of the regular expressions
DigitChars == Range(Digits)
WordChars == Range(LowerCaseLetters) \cup Range(UpperCaseLetters)
               \cup DigitChars \cup {"_"}
SpaceChars == {" ", "\t", "\n", "\r"}

IndexIn(s, c) == CHOOSE i \in DOMAIN s : s[i] = c

\* String.prototype.toLowerCase / toUpperCase, one character
LowerChar(c) ==
  IF c \in Range(UpperCaseLetters)
    THEN LowerCaseLetters[IndexIn(UpperCaseLetters, c)] ELSE c
UpperChar(c) ==
  IF c \in Range(LowerCaseLetters)
    THEN UpperCaseLetters[IndexIn(LowerCaseLetters, c)] ELSE c

toLowerCase(s) == [i \in DOMAIN s |-> LowerChar(s[i])]

\* t occurs in s at position i (1-based)
OccursAt(s, t, i) ==
  /\ i >= 1
  /\ i + Len(t) - 1 <= Len(s)
  /\ \A k \in 1..Len(t) : s[i + k - 1] = t[k]

\* String.prototype.startsWith
startsWith(s, t) == OccursAt(s, t, 1)

\* String.prototype.includes
includes(s, t) == \E i \in 1..(Len(s) - Len(t) + 1) : OccursAt(s, t, i)

\* Array.prototype.includes
Contains(list, x) == \E i \in DOMAIN list : list[i] = x

\* String.prototype.substring(0, n)
substring0(s, n) == SubSeq(s, 1, IF n < Len(s) THEN n ELSE Len(s))

Drop(s, n) == SubSeq(s, n + 1, Len(s))

\* String.prototype.split(c) for a one-character separator
RECURSIVE split(_, _)
split(s, c) ==
  IF \A i \in DOMAIN s : s[i] # c
    THEN <<s>>
    ELSE LET i == CHOOSE j \in DOMAIN s :
                    s[j] = c /\ \A k \in 1..(j - 1) : s[k] # c
         IN  <<SubSeq(s, 1, i - 1)>> \o split(Drop(s, i), c)

\* length of the longest prefix of s made of characters of the class cs
RECURSIVE RunLength(_, _)
RunLength(s, cs) ==
  IF s = <<>> \/ s[1] \notin cs THEN 0 ELSE 1 + RunLength(Tail(s), cs)

\* String.prototype.split(/\s+/)
RECURSIVE splitSpaces(_)
splitSpaces(s) ==
  IF \A i \in DOMAIN s : s[i] \notin SpaceChars
    THEN <<s>>
    ELSE LET i == CHOOSE j \in DOMAIN s :
                    s[j] \in SpaceChars
                    /\ \A k \in 1..(j - 1) : s[k] \notin SpaceChars
             rest == Drop(s, i - 1)
         IN  <<SubSeq(s, 1, i - 1)>>
               \o splitSpaces(Drop(rest, RunLength(rest, SpaceChars)))

\* String.prototype.trim, as a truth value: the trimmed string is non-empty
trimTruthy(s) == \E i \in DOMAIN s : s[i] \notin SpaceChars

\* String.prototype.replace(/pat/g, rep) for a literal pattern
RECURSIVE replaceAll(_, _, _)
replaceAll(s, pat, rep) ==
  IF s = <<>> THEN <<>>
  ELSE IF OccursAt(s, pat, 1)
    THEN rep \o replaceAll(Drop(s, Len(pat)), pat, rep)
    ELSE <<s[1]>> \o replaceAll(Tail(s), pat, rep)

\* Array.prototype.join
RECURSIVE join(_, _)
join(list, sep) ==
  IF list = <<>> THEN <<>>
  ELSE IF Len(list) = 1 THEN list[1]
  ELSE list[1] \o sep \o join(Tail(list), sep)

\* Array.from(new Set(list)): first occurrences, in order
RECURSIVE Dedupe(_)
Dedupe(list) ==
  IF list = <<>> THEN <<>>
  ELSE LET init == Dedupe(SubSeq(list, 1, Len(list) - 1))
           x == list[Len(list)]
       IN  IF Contains(init, x) THEN init ELSE Append(init, x)

\* Array.prototype.slice(0, end)
slice0(list, end) ==
  LET n == Len(list)
      e == IF end < 0 THEN (IF n + end < 0 THEN 0 ELSE n + end)
           ELSE (IF end > n THEN n ELSE end)
  IN  SubSeq(list, 1, e)

\* parseInt of a string of decimal digits
RECURSIVE parseInt(_)
parseInt(s) ==
  IF s = <<>> THEN 0
  ELSE 10 * parseInt(SubSeq(s, 1, Len(s) - 1))
         + (IndexIn(Digits, s[Len(s)]) - 1)

\* String.prototype.match for /(\d+)\s*(u1|u2|...)/i: the leftmost match,
\* as <<digits, unit>> inside Some, the alternatives tried in order
MatchAt(s, units, i) ==
  LET d == RunLength(Drop(s, i - 1), DigitChars)
      w == RunLength(Drop(s, i - 1 + d), SpaceChars)
      at == i + d + w
      low == toLowerCase(s)
      hits == {k \in DOMAIN units : OccursAt(low, units[k], at)}
  IN  IF d = 0 \/ hits = {} THEN None
      ELSE LET k == CHOOSE x \in hits : \A y \in hits : x <= y
           IN  Some(<<SubSeq(s, i, i + d - 1),
                      SubSeq(s, at, at + Len(units[k]) - 1)>>)

matchAge(s, units) ==
  LET starts == {i \in DOMAIN s : MatchAt(s, units, i) # None}
  IN  IF starts = {} THEN None
      ELSE MatchAt(s, units, CHOOSE i \in starts : \A j \in starts : i <= j)

\* RegExp.prototype.test for /\b(w1|w2|...)\b/i, every wi made of \w characters
testWord(s, words) ==
  LET low == toLowerCase(s)
  IN  \E k \in DOMAIN words : \E i \in DOMAIN s :
        /\ OccursAt(low, words[k], i)
        /\ (i = 1 \/ s[i - 1] \notin WordChars)
        /\ (i + Len(words[k]) > Len(s) \/ s[i + Len(words[k])] \notin WordChars)

\* RegExp.prototype.test for /w1|w2|.../i
testAny(s, words) ==
  \E k \in DOMAIN words : includes(toLowerCase(s), words[k])

----------------------------------------------------------------------------
(* Product matcher: lib/productMatcher *)

ProductUrlPrefix == <<"h","t","t","p","s",":","/","/","t","h","e","g","u","r","t","o","y","s",".","c","o","m","/","p","r","o","d","u","c","t","s","/">>

\* extractKeywords: the vocabulary lists
categories == <<
    <<"c","a","r">>, <<"b","i","k","e">>, <<"d","o","l","l">>,
    <<"t","o","y">>, <<"k","i","d","s">>, <<"b","a","b","y">>,
    <<"r","i","d","e">>, <<"p","u","s","h">>, <<"s","c","o","o","t","e","r">>,
    <<"s","t","r","o","l","l","e","r">> >>
attributes == <<
    <<"r","e","c","h","a","r","g","e","a","b","l","e">>, <<"b","a","t","t","e","r","y">>, <<"e","l","e","c","t","r","i","c">>,
    <<"e","d","u","c","a","t","i","o","n","a","l">>, <<"m","u","s","i","c","a","l">>, <<"i","n","t","e","r","a","c","t","i","v","e">> >>
ageGroups == <<
    <<"b","a","b","y">>, <<"t","o","d","d","l","e","r">>, <<"k","i","d","s">>,
    <<"c","h","i","l","d">>, <<"i","n","f","a","n","t">> >>
colors == <<
    <<"p","i","n","k">>, <<"b","l","u","e">>, <<"r","e","d">>,
    <<"g","r","e","e","n">>, <<"y","e","l","l","o","w">>, <<"w","h","i","t","e">>,
    <<"b","l","a","c","k">>, <<"n","a","v","y">> >>
allKeywords == categories \o attributes \o ageGroups \o colors

ShortNameWords == 5

extractKeywordsKeepsShortWords(name) ==
  LET words == splitSpaces(toLowerCase(name))
      Keep(word) == Contains(allKeywords, word) \/ Len(words) <= ShortNameWords
  IN  SelectSeq(words, Keep)

extractKeywords(name) ==
  LET words == splitSpaces(toLowerCase(name))
      Keep(word) ==
        Len(word) > 2
        /\ (Contains(allKeywords, word) \/ Len(words) <= ShortNameWords)
  IN  SelectSeq(words, Keep)

\* url.split('/').pop() || ''
SlugOf(url) == LET parts == split(url, "/") IN parts[Len(parts)]

\* slug.replace(/gurtoy-/g, '').replace(/-/g, ' ').toLowerCase()
NameOf(slug) ==
  toLowerCase(replaceAll(replaceAll(slug, <<"g","u","r","t","o","y","-">>, <<>>), <<"-">>, <<" ">>))

ProductOf(url) ==
  [url |-> url, slug |-> SlugOf(url), name |-> NameOf(SlugOf(url)),
   score |-> 0, keywords |-> extractKeywords(NameOf(SlugOf(url)))]

RECURSIVE ProductsOf(_)
ProductsOf(lines) ==
  IF lines = <<>> THEN <<>>
  ELSE IF ~startsWith(lines[1], ProductUrlPrefix) THEN ProductsOf(Tail(lines))
  ELSE <<ProductOf(lines[1])>> \o ProductsOf(Tail(lines))

buildProductIndexNoPrefixCheck(productData) ==
  LET lines == SelectSeq(split(productData, "\n"), trimTruthy)
  IN  [i \in DOMAIN lines |-> ProductOf(lines[i])]
buildProductIndexDedupes(productData) ==
  Dedupe(ProductsOf(SelectSeq(split(productData, "\n"), trimTruthy)))
buildProductIndex(productData) ==
  ProductsOf(SelectSeq(split(productData, "\n"), trimTruthy))

\* extractSearchTerms: the tables
AgeUnits == <<
    <<"y","e","a","r">>, <<"m","o","n","t","h">>, <<"y","r">>,
    <<"m","o">>, <<"s","a","a","l">> >>
BoyWords == <<
    <<"b","o","y">>, <<"b","o","y","s">>, <<"l","a","d","k","a">>,
    <<"b","e","t","a">> >>
GirlWords == <<
    <<"g","i","r","l">>, <<"g","i","r","l","s">>, <<"l","a","d","k","i">>,
    <<"b","e","t","i">> >>
BabyAge == 2
ChildAge == 5
searchCategories == <<
  [pattern |-> <<
    <<"c","a","r">>, <<"g","a","a","d","i">>, <<"v","e","h","i","c","l","e">> >>,
   keywords |-> <<
    <<"c","a","r">>, <<"v","e","h","i","c","l","e">> >>],
  [pattern |-> <<
    <<"b","i","k","e">>, <<"c","y","c","l","e">>, <<"b","i","c","y","c","l","e">> >>,
   keywords |-> <<
    <<"b","i","k","e">>, <<"c","y","c","l","e">> >>],
  [pattern |-> <<
    <<"d","o","l","l">>, <<"b","a","r","b","i","e">>, <<"g","u","d","i","y","a">> >>,
   keywords |-> <<
    <<"d","o","l","l">> >>],
  [pattern |-> <<
    <<"e","d","u","c","a","t","i","o","n","a","l">>, <<"l","e","a","r","n","i","n","g">>, <<"s","t","u","d","y">> >>,
   keywords |-> <<
    <<"e","d","u","c","a","t","i","o","n","a","l">> >>],
  [pattern |-> <<
    <<"m","u","s","i","c">>, <<"m","u","s","i","c","a","l">>, <<"s","o","n","g">> >>,
   keywords |-> <<
    <<"m","u","s","i","c","a","l">> >>],
  [pattern |-> <<
    <<"o","u","t","d","o","o","r">>, <<"b","a","h","a","r">> >>,
   keywords |-> <<
    <<"o","u","t","d","o","o","r">>, <<"r","i","d","e">> >>],
  [pattern |-> <<
    <<"i","n","d","o","o","r">>, <<"g","h","a","r">> >>,
   keywords |-> <<
    <<"i","n","d","o","o","r">> >>],
  [pattern |-> <<
    <<"c","r","e","a","t","i","v","e">>, <<"a","r","t">>, <<"d","r","a","w","i","n","g">> >>,
   keywords |-> <<
    <<"c","r","e","a","t","i","v","e">>, <<"a","r","t">> >>] >>
StopWords == <<
    <<"f","o","r">>, <<"a","n","d">>, <<"t","h","e">>,
    <<"w","i","t","h">>, <<"c","a","n">>, <<"y","o","u">>,
    <<"p","l","e","a","s","e">>, <<"w","a","n","t">>, <<"n","e","e","d">>,
    <<"l","o","o","k","i","n","g">>, <<"g","o","o","d">>, <<"b","e","s","t">> >>
MinWordLength == 3

AgeTermsStrictBounds(query) ==
  LET ageMatch == matchAge(query, AgeUnits)
  IN  IF ageMatch = None THEN <<>>
      ELSE LET age == parseInt(ageMatch[1][1])
           IN  IF age < BabyAge THEN <<
    <<"b","a","b","y">>, <<"t","o","d","d","l","e","r">> >>
               ELSE IF age < ChildAge THEN <<
    <<"k","i","d","s">>, <<"c","h","i","l","d">> >>
               ELSE <<
    <<"k","i","d","s">> >>
AgeTerms(query) ==
  LET ageMatch == matchAge(query, AgeUnits)
  IN  IF ageMatch = None THEN <<>>
      ELSE LET age == parseInt(ageMatch[1][1])
           IN  IF age <= BabyAge THEN <<
    <<"b","a","b","y">>, <<"t","o","d","d","l","e","r">> >>
               ELSE IF age <= ChildAge THEN <<
    <<"k","i","d","s">>, <<"c","h","i","l","d">> >>
               ELSE <<
    <<"k","i","d","s">> >>

GenderTerms(query) ==
  (IF testWord(query, BoyWords) THEN <<
    <<"b","o","y","s">> >> ELSE <<>>)
  \o (IF testWord(query, GirlWords) THEN <<
    <<"g","i","r","l","s">> >> ELSE <<>>)

RECURSIVE CategoryTerms(_, _)
CategoryTerms(query, table) ==
  IF table = <<>> THEN <<>>
  ELSE (IF testAny(query, table[1].pattern) THEN table[1].keywords ELSE <<>>)
         \o CategoryTerms(query, Tail(table))

\* query.replace(/[^\w\s]/g, '').split(/\s+/) and the filter on the words
MeaningfulWords(query) ==
  LET IsKept(c) == c \in WordChars \cup SpaceChars
      words == splitSpaces(SelectSeq(query, IsKept))
      IsMeaningful(w) ==
        Len(w) >= MinWordLength /\ ~Contains(StopWords, toLowerCase(w))
  IN  SelectSeq(words, IsMeaningful)

extractSearchTermsNoDedupe(query) ==
  AgeTerms(query) \o GenderTerms(query)
    \o CategoryTerms(query, searchCategories)
    \o MeaningfulWords(query)
extractSearchTerms(query) ==
  Dedupe(AgeTerms(query) \o GenderTerms(query)
           \o CategoryTerms(query, searchCategories)
           \o MeaningfulWords(query))

\* calculateRelevanceScore
ExactMatchBonus == 10
PartialMatchBonus == 3
KeywordMatchBonus == 15
PopularBonus == 2
PartialLength == 4
popularProducts == <<
    <<"c","a","r">>, <<"b","i","k","e">>, <<"d","o","l","l">>,
    <<"e","d","u","c","a","t","i","o","n","a","l">>, <<"s","t","r","o","l","l","e","r">>, <<"s","c","o","o","t","e","r">> >>

ProductText(product) ==
  toLowerCase(product.name \o <<" ">> \o join(product.keywords, <<" ">>))

TermScoreNoKeywordBonus(term, product) ==
  (IF includes(ProductText(product), term) THEN ExactMatchBonus ELSE 0)
  + (IF includes(ProductText(product), substring0(term, PartialLength))
       THEN PartialMatchBonus ELSE 0)
TermScoreBestTierOnly(term, product) ==
  IF Contains(product.keywords, term) THEN KeywordMatchBonus
  ELSE IF includes(ProductText(product), term) THEN ExactMatchBonus
  ELSE IF includes(ProductText(product), substring0(term, PartialLength))
    THEN PartialMatchBonus
  ELSE 0
TermScore(term, product) ==
  (IF includes(ProductText(product), term) THEN ExactMatchBonus ELSE 0)
  + (IF includes(ProductText(product), substring0(term, PartialLength))
       THEN PartialMatchBonus ELSE 0)
  + (IF Contains(product.keywords, term) THEN KeywordMatchBonus ELSE 0)

RECURSIVE TermsScore(_, _)
TermsScore(searchTerms, product) ==
  IF searchTerms = <<>> THEN 0
  ELSE TermScore(searchTerms[1], product)
         + TermsScore(Tail(searchTerms), product)

RECURSIVE PopularScore(_, _)
PopularScore(populars, product) ==
  IF populars = <<>> THEN 0
  ELSE (IF includes(ProductText(product), populars[1]) THEN PopularBonus ELSE 0)
         + PopularScore(Tail(populars), product)

calculateRelevanceScoreNoBoost(searchTerms, product) ==
  TermsScore(searchTerms, product)
calculateRelevanceScore(searchTerms, product) ==
  TermsScore(searchTerms, product) + PopularScore(popularProducts, product)

\* Array.prototype.sort((a, b) => b.score - a.score): stable, descending
RECURSIVE InsertByScoreBeforeTies(_, _)
InsertByScoreBeforeTies(sorted, p) ==
  IF sorted = <<>> THEN <<p>>
  ELSE IF sorted[1].score > p.score
    THEN <<sorted[1]>> \o InsertByScoreBeforeTies(Tail(sorted), p)
    ELSE <<p>> \o sorted
RECURSIVE InsertByScore(_, _)
InsertByScore(sorted, p) ==
  IF sorted = <<>> THEN <<p>>
  ELSE IF sorted[1].score >= p.score
    THEN <<sorted[1]>> \o InsertByScore(Tail(sorted), p)
    ELSE <<p>> \o sorted

RECURSIVE sortByScore(_)
sortByScore(list) ==
  IF list = <<>> THEN <<>>
  ELSE InsertByScore(sortByScore(SubSeq(list, 1, Len(list) - 1)),
                     list[Len(list)])

\* `!productIndex || now - indexLastUpdated > INDEX_CACHE_TTL`
NeedsRebuildAtTtl(index, lastUpdated, now) ==
  index = None \/ now - lastUpdated >= INDEX_CACHE_TTL
NeedsRebuild(index, lastUpdated, now) ==
  index = None \/ now - lastUpdated > INDEX_CACHE_TTL

\* scoring, filtering, sorting and slicing of findRelevantProducts
ScoredProducts(searchTerms, entries) ==
  [i \in DOMAIN entries |->
     [entries[i] EXCEPT !.score = calculateRelevanceScore(searchTerms, entries[i])]]

TopMatchesNoFilter(searchTerms, entries, limit) ==
  slice0(sortByScore(ScoredProducts(searchTerms, entries)), limit)
TopMatchesNoEmptyCheck(searchTerms, entries, limit) ==
  LET Positive(p) == p.score > 0
  IN  slice0(sortByScore(SelectSeq(ScoredProducts(searchTerms, entries), Positive)),
             limit)
TopMatches(searchTerms, entries, limit) ==
  LET Positive(p) == p.score > 0
  IN  IF Len(searchTerms) = 0 THEN <<>>
      ELSE slice0(sortByScore(SelectSeq(ScoredProducts(searchTerms, entries),
                                        Positive)),
                  limit)

DefaultLimit == 3
ContextLimit == 8

\* getSmartProductContext: the rendering
NoProductContext == <<"C","u","r","r","e","n","t"," ","c","o","n","v","e","r","s","a","t","i","o","n"," ","d","o","e","s","n","'","t"," ","r","e","q","u","i","r","e"," ","s","p","e","c","i","f","i","c"," ","p","r","o","d","u","c","t"," ","r","e","c","o","m","m","e","n","d","a","t","i","o","n","s","."," ","P","r","o","v","i","d","e"," ","g","e","n","e","r","a","l"," ","g","u","i","d","a","n","c","e",".">>
ContextHeader == <<"R","E","L","E","V","A","N","T"," ","P","R","O","D","U","C","T","S"," ","(","r","e","c","o","m","m","e","n","d"," ","m","a","x"," ","3",")",":","\n">>
ContextFooter == <<"\n","\n","I","M","P","O","R","T","A","N","T",":"," ","O","n","l","y"," ","r","e","c","o","m","m","e","n","d"," ","p","r","o","d","u","c","t","s"," ","f","r","o","m"," ","t","h","i","s"," ","l","i","s","t","."," ","V","e","r","i","f","y"," ","U","R","L","s"," ","e","x","i","s","t"," ","b","e","f","o","r","e"," ","s","u","g","g","e","s","t","i","n","g",".">>

\* name.replace(/\b\w/g, l => l.toUpperCase())
Capitalize(name) ==
  [i \in DOMAIN name |->
     IF name[i] \in WordChars /\ (i = 1 \/ name[i - 1] \notin WordChars)
       THEN UpperChar(name[i]) ELSE name[i]]

ProductLine(p) ==
  <<"-"," ","[">> \o Capitalize(p.name) \o <<"]","(">> \o p.url \o <<")">>

RenderContext(relevantProducts) ==
  IF Len(relevantProducts) = 0 THEN NoProductContext
  ELSE ContextHeader
         \o join([i \in DOMAIN relevantProducts |-> ProductLine(relevantProducts[i])],
                 <<"\n">>)
         \o ContextFooter

----------------------------------------------------------------------------
(* Inputs *)

PushCarUrl == ProductUrlPrefix \o <<"g","u","r","t","o","y","-","p","u","s","h","-","c","a","r","-","r","a","b","b","i","t","-","c","a","r","-","f","o","r","-","k","i","d","s">>
DollUrl == ProductUrlPrefix \o <<"g","u","r","t","o","y","-","b","a","b","y","-","d","o","l","l","-","p","i","n","k">>
BikeUrl == ProductUrlPrefix \o <<"k","i","d","s","-","b","i","k","e">>
TeddyUrl == ProductUrlPrefix \o <<"g","u","r","t","o","y","-","t","e","d","d","y","-","b","e","a","r">>
ComboUrl == ProductUrlPrefix \o <<"g","u","r","t","o","y","-","d","o","l","l","s","-","c","a","r","s","-","b","i","k","e","s">>

CatalogFull ==
  PushCarUrl \o <<"\n">> \o TeddyUrl \o <<"\n">> \o DollUrl \o <<"\n">> \o BikeUrl
CatalogEmpty == <<>>
\* no line starts with the canonical prefix: a heading, a blank line and an
\* indented URL
CatalogNoise == <<"p","r","o","d","u","c","t","s","\n"," ","\n"," ">> \o BikeUrl
CatalogMixed == <<"#"," ","t","o","y","s","\n">> \o BikeUrl \o <<"\n","\n">>
\* a product listed twice, around another one
CatalogCombo == ComboUrl \o <<"\n">> \o DollUrl \o <<"\n">> \o ComboUrl
Catalogs == {CatalogFull, CatalogEmpty, CatalogNoise, CatalogMixed, CatalogCombo}

Queries == {
    <<"c","a","r"," ","f","o","r"," ","3"," ","y","e","a","r"," ","o","l","d"," ","b","o","y">>, <<>>, <<"I"," ","w","a","n","t"," ","T","H","E"," ","b","e","s","t",","," ","f","o","r"," ","m","e","!">>,
    <<"d","o","l","l">>, <<"P","i","n","k"," ","b","i","k","e",","," ","k","i","d","s","!">>, <<"1"," ","s","a","a","l"," ","b","a","b","y"," ","t","e","d","d","y">>,
    <<"d","o","l","l",","," ","c","a","r"," ","o","r"," ","b","i","k","e">> }

Limits == {-1, 0, 1, 2, DefaultLimit}

\* what a loader can resolve to
ContextDocs == {Doc("1", CatalogFull), Doc("2", CatalogMixed)}

----------------------------------------------------------------------------
(* Operations *)

NoQuery ==
  [query |-> <<>>, productData |-> <<>>, limit |-> 0, matches |-> <<>>,
   context |-> None]

InitProgram ==
  /\ clock = StartClock
  /\ contextCache = None
  /\ pc = [p \in Callers |-> "idle"]
  /\ callNow = [p \in Callers |-> 0]
  /\ ret = NotCalled
  /\ productIndex = None
  /\ indexLastUpdated = 0
  /\ found = NoQuery
  /\ seen = None
  /\ op = Label("init", 0, "none")

\* an ai-chat handler that serves no request
IdleRequest ==
  [pc |-> "idle", method |-> "", userId |-> <<>>, message |-> <<>>,
   context |-> NotCalled, history |-> None, memory |-> None, llmCalls |-> 0,
   reply |-> None, status |-> 0, error |-> ""]

\* an empty store, no request in flight
InitStore ==
  /\ users = {}
  /\ chats = <<>>
  /\ req = [p \in Callers |-> IdleRequest]

Init == InitProgram /\ firstAfterClear = Untracked /\ InitStore
InitCache == InitProgram /\ firstAfterClear = NoClear /\ InitStore

\* the history variable: which call is the first since the last clear
TrackClear ==
  firstAfterClear' =
    IF firstAfterClear = Untracked THEN Untracked
    ELSE IF op'.name = "clearContextCache" THEN Cleared
    ELSE IF op'.name = "getCachedContextFiles" /\ firstAfterClear = Cleared
      THEN (IF pc'[op'.proc] = "loading" THEN FirstCall(op'.proc) ELSE NoClear)
    ELSE IF op'.name = "loaderSettled" /\ firstAfterClear = FirstCall(op'.proc)
      THEN NoClear
    ELSE firstAfterClear

\* ret, found and seen hold the value the last step returned to its caller:
\* ret for getCachedContextFiles, found for a product query, seen for an
\* introspection call
NoResult == ret' = NotCalled /\ found' = NoQuery /\ seen' = None

\* Time passes.
Tick ==
  /\ clock < MaxClock
  /\ clock' = clock + TickStep
  /\ op' = Label("tick", 0, "none")
  /\ UNCHANGED <<chatVars, cacheVars, productIndex, indexLastUpdated,
                 firstAfterClear>>
  /\ NoResult

\* getCachedContextFiles up to `await loadFunction()`: a hit returns at once,
\* otherwise the loader is invoked and the call is suspended.
GetCachedContextFilesCall(p) ==
  /\ pc[p] = "idle"
  /\ IF IsHit(contextCache, clock)
       THEN /\ ret' = Returned(Some(contextCache[1].data))
            /\ op' = Label("getCachedContextFiles", p, "hit")
            /\ UNCHANGED <<pc, callNow>>
       ELSE /\ pc' = [pc EXCEPT ![p] = "loading"]
            /\ callNow' = [callNow EXCEPT ![p] = clock]
            /\ ret' = Pending
            /\ op' = Label("getCachedContextFiles", p, "load")
  /\ UNCHANGED <<chatVars, clock, contextCache, productIndex, indexLastUpdated>>
  /\ found' = NoQuery /\ seen' = None
  /\ TrackClear

\* the loader's promise resolves with `fresh` (None: null) and the call
\* continues after the await
LoaderResolves(p, fresh) ==
  /\ pc[p] = "loading"
  /\ contextCache' = CacheAfterLoad(contextCache, fresh, callNow[p])
  /\ ret' = Returned(IF fresh = None THEN StaleOrNull(contextCache) ELSE fresh)
  /\ pc' = [pc EXCEPT ![p] = "idle"]
  /\ callNow' = [callNow EXCEPT ![p] = 0]
  /\ op' = Label("loaderSettled", p, IF fresh = None THEN "null" ELSE "data")
  /\ UNCHANGED <<chatVars, clock, productIndex, indexLastUpdated>>
  /\ found' = NoQuery /\ seen' = None
  /\ TrackClear

\* the loader throws or its promise rejects: the await throws and nothing
\* in getCachedContextFiles catches it
LoaderRejects(p) ==
  /\ pc[p] = "loading"
  /\ ret' = Rejected
  /\ pc' = [pc EXCEPT ![p] = "idle"]
  /\ callNow' = [callNow EXCEPT ![p] = 0]
  /\ op' = Label("loaderSettled", p, "reject")
  /\ UNCHANGED <<chatVars, clock, contextCache, productIndex, indexLastUpdated>>
  /\ found' = NoQuery /\ seen' = None
  /\ TrackClear

ClearContextCacheResetsIndex ==
  /\ contextCache' = None
  /\ productIndex' = None
  /\ indexLastUpdated' = 0
  /\ op' = Label("clearContextCache", 0, "none")
  /\ UNCHANGED <<chatVars, clock, pc, callNow>>
  /\ NoResult
  /\ TrackClear
ClearContextCache ==
  /\ contextCache' = None
  /\ op' = Label("clearContextCache", 0, "none")
  /\ UNCHANGED <<chatVars, clock, pc, callNow, productIndex, indexLastUpdated>>
  /\ NoResult
  /\ TrackClear

\* getCacheStatus; new Date(t).toISOString() is kept as the time stamp t
CacheStatus(cache, now) ==
  IF cache = None THEN [status |-> "empty"]
  ELSE [status |-> IF now >= cache[1].expires THEN "expired" ELSE "valid",
        age |-> now - cache[1].lastModified,
        timeToExpiry |-> cache[1].expires - now,
        lastModified |-> cache[1].lastModified]

GetCacheStatus ==
  /\ seen' = Some(CacheStatus(contextCache, clock))
  /\ op' = Label("getCacheStatus", 0, "none")
  /\ UNCHANGED <<chatVars, clock, cacheVars, productIndex, indexLastUpdated,
                 firstAfterClear>>
  /\ ret' = NotCalled /\ found' = NoQuery

\* The pure parts of the product matcher, tabulated over the inputs explored
\* (each table entry is the operator applied to that input).
BuiltIndexOf == [c \in Catalogs |-> buildProductIndex(c)]
SearchTermsOf == [q \in Queries |-> extractSearchTerms(toLowerCase(q))]
TopMatchesOf ==
  [entries \in {BuiltIndexOf[c] : c \in Catalogs} |->
     [q \in Queries |->
        [l \in Limits \cup {ContextLimit} |->
           TopMatches(SearchTermsOf[q], entries, l)]]]
RenderedOf ==
  [entries \in {BuiltIndexOf[c] : c \in Catalogs} |->
     [q \in Queries |-> RenderContext(TopMatchesOf[entries][q][ContextLimit])]]

\* findRelevantProducts(query, productData, limit): the index it leaves, its
\* time stamp, and the list it returns
FindRelevantProductsScoresInPlace(query, productData, limit) ==
  LET rebuild == NeedsRebuild(productIndex, indexLastUpdated, clock)
      index == IF rebuild THEN BuiltIndexOf[productData] ELSE productIndex[1]
      searchTerms == SearchTermsOf[query]
  IN  /\ productIndex' =
           IF Len(searchTerms) = 0 THEN Some(index)
           ELSE Some(sortByScore(ScoredProducts(searchTerms, index)))
      /\ indexLastUpdated' = IF rebuild THEN clock ELSE indexLastUpdated
      /\ found' = [query |-> query, productData |-> productData, limit |-> limit,
                   matches |-> TopMatches(searchTerms, index, limit),
                   context |-> None]
      /\ op' = Label("findRelevantProducts", 0,
                     IF rebuild THEN "rebuild" ELSE "reuse")
      /\ UNCHANGED <<chatVars, clock, cacheVars, firstAfterClear>>
      /\ ret' = NotCalled /\ seen' = None
FindRelevantProducts(query, productData, limit) ==
  /\ productIndex' = IF NeedsRebuild(productIndex, indexLastUpdated, clock)
                       THEN Some(BuiltIndexOf[productData]) ELSE productIndex
  /\ indexLastUpdated' = IF NeedsRebuild(productIndex, indexLastUpdated, clock)
                           THEN clock ELSE indexLastUpdated
  /\ found' = [query |-> query, productData |-> productData, limit |-> limit,
               matches |-> TopMatchesOf[productIndex'[1]][query][limit],
               context |-> None]
  /\ op' = Label("findRelevantProducts", 0,
                 IF NeedsRebuild(productIndex, indexLastUpdated, clock)
                   THEN "rebuild" ELSE "reuse")
  /\ UNCHANGED <<chatVars, clock, cacheVars, firstAfterClear>>
  /\ ret' = NotCalled /\ seen' = None

\* getSmartProductContext(query, productData)
GetSmartProductContext(query, productData) ==
  /\ productIndex' = IF NeedsRebuild(productIndex, indexLastUpdated, clock)
                       THEN Some(BuiltIndexOf[productData]) ELSE productIndex
  /\ indexLastUpdated' = IF NeedsRebuild(productIndex, indexLastUpdated, clock)
                           THEN clock ELSE indexLastUpdated
  /\ found' = [query |-> query, productData |-> productData,
               limit |-> ContextLimit,
               matches |-> TopMatchesOf[productIndex'[1]][query][ContextLimit],
               context |-> Some(RenderedOf[productIndex'[1]][query])]
  /\ op' = Label("getSmartProductContext", 0,
                 IF NeedsRebuild(productIndex, indexLastUpdated, clock)
                   THEN "rebuild" ELSE "reuse")
  /\ UNCHANGED <<chatVars, clock, cacheVars, firstAfterClear>>
  /\ ret' = NotCalled /\ seen' = None

\* getProductIndexStats; new Date(t).toISOString() is kept as the time stamp t
IndexStats(index, lastUpdated, now) ==
  [indexed |-> IF index = None THEN 0 ELSE Len(index[1]),
   lastUpdated |-> IF lastUpdated # 0 THEN Some(lastUpdated) ELSE None,
   cacheAge |-> IF lastUpdated # 0 THEN now - lastUpdated ELSE 0]

GetProductIndexStatsRebuilds ==
  /\ seen' = Some(IndexStats(productIndex, indexLastUpdated, clock))
  /\ productIndex' = IF productIndex = None THEN Some(<<>>) ELSE productIndex
  /\ indexLastUpdated' = clock
  /\ op' = Label("getProductIndexStats", 0, "none")
  /\ UNCHANGED <<chatVars, clock, cacheVars, firstAfterClear>>
  /\ ret' = NotCalled /\ found' = NoQuery
GetProductIndexStats ==
  /\ seen' = Some(IndexStats(productIndex, indexLastUpdated, clock))
  /\ op' = Label("getProductIndexStats", 0, "none")
  /\ UNCHANGED <<chatVars, clock, cacheVars, productIndex, indexLastUpdated,
                 firstAfterClear>>
  /\ ret' = NotCalled /\ found' = NoQuery

----------------------------------------------------------------------------
(* Specifications *)

\* the context cache alone, under concurrent callers
NextCache ==
  \/ Tick
  \/ \E p \in Callers : GetCachedContextFilesCall(p)
  \/ \E p \in Callers : \E d \in ContextDocs : LoaderResolves(p, Some(d))
  \/ \E p \in Callers : LoaderResolves(p, None)
  \/ \E p \in Callers : LoaderRejects(p)
  \/ ClearContextCache
  \/ GetCacheStatus

SpecCache == InitCache /\ [][NextCache]_vars

\* the product matcher alone
NextIndex ==
  \/ Tick
  \/ \E q \in Queries : \E c \in Catalogs : \E l \in Limits :
       FindRelevantProducts(q, c, l)
  \/ \E q \in Queries : \E c \in Catalogs :
       GetSmartProductContext(q, c)
  \/ GetProductIndexStats

SpecIndex == Init /\ [][NextIndex]_vars

\* both together: the request handlers read the context cache and query the
\* product matcher with the catalog of a document set the loader serves
ServedCatalogs == {d.product : d \in ContextDocs}
\* a message that names products and one that yields no search term
Messages == {q \in Queries : Len(q) \in {0, 4}}

Next ==
  \/ Tick
  \/ \E p \in Handlers : GetCachedContextFilesCall(p)
  \/ \E p \in Handlers : \E d \in ContextDocs : LoaderResolves(p, Some(d))
  \/ \E p \in Handlers : LoaderResolves(p, None)
  \/ \E p \in Handlers : LoaderRejects(p)
  \/ ClearContextCache
  \/ GetCacheStatus
  \/ \E q \in Messages : \E c \in ServedCatalogs : GetSmartProductContext(q, c)
  \/ GetProductIndexStats

Spec == Init /\ [][Next]_vars

\* overlapping getCachedContextFiles calls interleaved with findRelevantProducts
\* calls
RaceQuery == CHOOSE q \in Messages : Len(q) > 0
RaceCatalog == CatalogFull

NextRace ==
  \/ Tick
  \/ \E p \in Callers : GetCachedContextFilesCall(p)
  \/ \E p \in Callers : \E d \in ContextDocs : LoaderResolves(p, Some(d))
  \/ \E p \in Callers : LoaderResolves(p, None)
  \/ \E p \in Callers : LoaderRejects(p)
  \/ FindRelevantProducts(RaceQuery, RaceCatalog, DefaultLimit)

SpecRace == Init /\ [][NextRace]_vars

\* the two parsers alone, applied to generated texts

\* the queries: a number written before a unit word, with and without text
\* around it, and queries without such a pair
MaxAge == 7
Numeral(n) ==
  IF n < 10 THEN <<Digits[n + 1]>>
  ELSE <<Digits[(n \div 10) + 1], Digits[(n % 10) + 1]>>
TermQueries ==
  LET before == {<<>>, <<"2"," ","T","o","y","s"," ","f","o","r"," ">>}
      numerals == {Numeral(n) : n \in 0..MaxAge} \cup {<<"0","2">>, <<"1","2">>}
      gaps == {<<>>, <<" ">>}
      after == {<<>>, <<"s"," ","o","l","d"," ","g","i","r","l">>, <<" ","o","r"," ","1"," ","y","r"," ","B","O","Y">>}
  IN  {b \o n \o g \o u \o a :
         b \in before, n \in numerals, g \in gaps, u \in Range(AgeUnits),
         a \in after}
      \cup Queries
      \cup {
    <<"3"," ","m","o","r","e"," ","c","a","r","s">>, <<"1",".","5"," ","y","e","a","r"," ","o","l","d">>, <<"y","e","a","r"," ","3">>,
    <<"3"," ","c","a","r","s">>, <<"t","w","o"," ","y","e","a","r","s"," ","o","l","d">>, <<"D","o","l","l"," ","d","o","l","l"," ","D","O","L","L"," ","c","a","r">>,
    <<"b","o","y"," ","o","r"," ","g","i","r","l",","," ","b","o","y","s"," ","c","y","c","l","e">>, <<"M","u","s","i","c","a","l"," ","C","A","R"," ","f","o","r"," ","k","i","d","s">>, <<"v","e","h","i","c","l","e"," ","c","a","r"," ","a","r","t">> }

\* the catalogs: every text of at most MaxLines lines, each a product URL, a
\* blank line, or a line that does not start with the canonical prefix
MaxLines == 3
CatalogLines ==
  LET CarUrl == ProductUrlPrefix \o <<"g","u","r","t","o","y","-","c","a","r">>
  IN  {CarUrl, ProductUrlPrefix \o <<"g","u","r","t","o","y","-","r","c","-","c","a","r","-","f","o","r","-","b","i","g","-","b","o","y","s">>, CarUrl \o <<"/">>,
       <<" ", " ">>, <<" ">> \o CarUrl}
BuildCatalogs ==
  {join(ls, <<"\n">>) :
     ls \in UNION {[1..n -> CatalogLines] : n \in 0..MaxLines}}
  \cup Catalogs

\* extractSearchTerms and buildProductIndex, tabulated over these inputs
TermsOfQuery == [q \in TermQueries |-> extractSearchTerms(toLowerCase(q))]
IndexOfCatalog == [c \in BuildCatalogs |-> buildProductIndex(c)]

\* extractSearchTerms(query.toLowerCase()), as findRelevantProducts calls it
ExtractSearchTerms(query) ==
  /\ found' = [NoQuery EXCEPT !.query = query]
  /\ seen' = Some(TermsOfQuery[query])
  /\ op' = Label("extractSearchTerms", 0, "none")
  /\ ret' = NotCalled
  /\ UNCHANGED <<chatVars, clock, cacheVars, indexVars, firstAfterClear>>

\* buildProductIndex(productData), as findRelevantProducts calls it
BuildProductIndex(productData) ==
  /\ found' = [NoQuery EXCEPT !.productData = productData]
  /\ seen' = Some(IndexOfCatalog[productData])
  /\ op' = Label("buildProductIndex", 0, "none")
  /\ ret' = NotCalled
  /\ UNCHANGED <<chatVars, clock, cacheVars, indexVars, firstAfterClear>>

NextParse ==
  \/ \E q \in TermQueries : ExtractSearchTerms(q)
  \/ \E c \in BuildCatalogs : BuildProductIndex(c)

SpecParse == Init /\ [][NextParse]_vars

----------------------------------------------------------------------------
(* Conversation memory: lib/getChatMemory *)

Chat(role, message) == [role |-> role, message |-> message]
UserRole == <<"u","s","e","r">>
AssistantRole == <<"a","s","s","i","s","t","a","n","t">>

NewConversation == <<"N","e","w"," ","c","o","n","v","e","r","s","a","t","i","o","n"," ","-"," ","n","o"," ","p","r","e","v","i","o","u","s"," ","c","o","n","t","e","x","t",".">>
RecentTurns == 10
MessageLimit == 100
MaxInterests == 3

\* extractChildAge: the first user message that matches the age pattern
ChildAgeUnits == <<<<"y","e","a","r">>, <<"m","o","n","t","h">>, <<"y","r">>, <<"m","o">>>>
RECURSIVE extractChildAge(_)
extractChildAge(chatHistory) ==
  IF chatHistory = <<>> THEN None
  ELSE LET chat == chatHistory[1]
           match == IF chat.role = UserRole
                      THEN matchAge(chat.message, ChildAgeUnits) ELSE None
       IN  IF match # None
             THEN Some(match[1][1] \o <<" ">> \o toLowerCase(match[1][2]))
             ELSE extractChildAge(Tail(chatHistory))

\* extractInterests: per user message, the keywords it includes, in the
\* order of the keyword list, each interest once, then slice(0, 3)
InterestKeywords == <<
    <<"e","d","u","c","a","t","i","o","n","a","l">>, <<"p","u","z","z","l","e">>, <<"t","o","y">>,
    <<"c","a","r">>, <<"d","o","l","l">>, <<"b","i","k","e">>,
    <<"o","u","t","d","o","o","r">>, <<"i","n","d","o","o","r">>, <<"c","r","e","a","t","i","v","e">>,
    <<"b","u","i","l","d","i","n","g">>, <<"m","u","s","i","c","a","l">> >>
RECURSIVE InterestsSeen(_)
InterestsSeen(chatHistory) ==
  IF chatHistory = <<>> THEN <<>>
  ELSE LET chat == chatHistory[1]
           Mentioned(keyword) == includes(toLowerCase(chat.message), keyword)
       IN  (IF chat.role = UserRole
              THEN SelectSeq(InterestKeywords, Mentioned) ELSE <<>>)
             \o InterestsSeen(Tail(chatHistory))
extractInterestsFromAllRoles(chatHistory) ==
  LET AsUser(chat) == Chat(UserRole, chat.message)
  IN  slice0(Dedupe(InterestsSeen([i \in DOMAIN chatHistory |->
                                     AsUser(chatHistory[i])])), MaxInterests)
extractInterests(chatHistory) ==
  slice0(Dedupe(InterestsSeen(chatHistory)), MaxInterests)

\* `${chat.role}: ${chat.message.substring(0, 100)}${... ? '...' : ''}`
RecentLineCutsAtLimit(chat) ==
  chat.role \o <<":"," ">> \o substring0(chat.message, MessageLimit)
    \o (IF Len(chat.message) >= MessageLimit THEN <<".",".",".">> ELSE <<>>)
RecentLine(chat) ==
  chat.role \o <<":"," ">> \o substring0(chat.message, MessageLimit)
    \o (IF Len(chat.message) > MessageLimit THEN <<".",".",".">> ELSE <<>>)

\* chatHistory.slice(-10)
LastTurns(chatHistory) ==
  SubSeq(chatHistory,
         IF Len(chatHistory) > RecentTurns
           THEN Len(chatHistory) - RecentTurns + 1 ELSE 1,
         Len(chatHistory))

ContextSummary(chatHistory) ==
  LET childAge == extractChildAge(chatHistory)
      interests == extractInterests(chatHistory)
  IN  (IF childAge # None
         THEN <<"C","h","i","l","d"," ","a","g","e",":"," ">> \o childAge[1] \o <<"."," ">> ELSE <<>>)
      \o (IF Len(interests) > 0
            THEN <<"I","n","t","e","r","e","s","t","s",":"," ">> \o join(interests, <<","," ">>) \o <<"."," ">>
            ELSE <<>>)

formatChatHistoryForAIAlwaysSummary(chatHistory) ==
  LET recent == LastTurns(chatHistory)
  IN  <<"C","o","n","t","e","x","t",":"," ">> \o ContextSummary(chatHistory)
        \o <<"\n","R","e","c","e","n","t"," ","m","e","s","s","a","g","e","s",":","\n">>
        \o join([i \in DOMAIN recent |-> RecentLine(recent[i])], <<"\n">>)
        \o <<"\n">>
formatChatHistoryForAI(chatHistory) ==
  IF Len(chatHistory) = 0 THEN NewConversation
  ELSE LET recent == LastTurns(chatHistory)
       IN  <<"C","o","n","t","e","x","t",":"," ">> \o ContextSummary(chatHistory)
             \o <<"\n","R","e","c","e","n","t"," ","m","e","s","s","a","g","e","s",":","\n">>
             \o join([i \in DOMAIN recent |-> RecentLine(recent[i])], <<"\n">>)
             \o <<"\n">>

\* Array.prototype.reverse
Reverse(list) == [i \in DOMAIN list |-> list[Len(list) - i + 1]]

\* getChatHistory(userId, limit): the rows of the user, newest first and at
\* most `limit` of them, reversed; the empty list when the read reports an
\* error or throws. `stored` is the user's rows, oldest first.
getChatHistory(stored, limit, outcome) ==
  IF outcome # "data" THEN <<>>
  ELSE Reverse(SubSeq(Reverse(stored), 1,
                      IF limit < Len(stored) THEN limit ELSE Len(stored)))

\* the conversation memory alone, applied to generated histories

\* the turns: fillers, a user turn with an age and an interest, one with a
\* later age, one naming many interests, user messages of 101 and of 100
\* characters, and an assistant turn of several lines that names an age and
\* interests
HistoryLimit == 6
MaxPad == 10
Filler(i) ==
  IF i % 2 = 1 THEN Chat(UserRole, <<"h","i">>) ELSE Chat(AssistantRole, <<"o","k">>)
MarkedTurns ==
  {Chat(UserRole, <<"M","y"," ","s","o","n"," ","i","s"," ","3"," ","Y","e","a","r","s"," ","o","l","d",","," ","h","e"," ","w","a","n","t","s"," ","a"," ","c","a","r">>),
   Chat(UserRole, <<"6"," ","m","o"," ","b","a","b","y">>),
   Chat(UserRole, <<"p","u","z","z","l","e",","," ","d","o","l","l",","," ","e","d","u","c","a","t","i","o","n","a","l"," ","t","o","y"," ","a","n","d"," ","m","u","s","i","c","a","l"," ","c","a","r">>),
   Chat(UserRole, <<"b","i","k","e"," ","x","x","x","x","x","x","x","x","x","x","x","x","x","x","x","x","x","x","x","x","x","x","x","x","x","x","x","x","x","x","x","x","x","x","x","x","x","x","x","x","x","x","x","x","x","x","x","x","x","x","x","x","x","x","x","x","x","x","x","x","x","x","x","x","x","x","x","x","x","x","x","x","x","x","x","x","x","x","x","x","x","x","x","x","x","x","x","x","x","x","x","x","x","x","x","x">>),
   Chat(UserRole, <<"y","y","y","y","y","y","y","y","y","y","y","y","y","y","y","y","y","y","y","y","y","y","y","y","y","y","y","y","y","y","y","y","y","y","y","y","y","y","y","y","y","y","y","y","y","y","y","y","y","y","y","y","y","y","y","y","y","y","y","y","y","y","y","y","y","y","y","y","y","y","y","y","y","y","y","y","y","y","y","y","y","y","y","y","y","y","y","y","y","y","y","y","y","y","y","y","y","y","y","y">>),
   Chat(AssistantRole, <<"F","o","r"," ","2"," ","y","r",":","\n","-"," ","o","u","t","d","o","o","r"," ","b","i","k","e","\n","-"," ","b","u","i","l","d","i","n","g"," ","s","e","t">>)}
Histories ==
  LET ends == {<<>>} \cup {<<t>> : t \in MarkedTurns}
  IN  {head \o [i \in 1..k |-> Filler(i)] \o tail :
         head \in ends, k \in 0..MaxPad, tail \in ends}
StoredHistories == {[i \in 1..k |-> Filler(i)] : k \in 0..MaxPad}
ReadOutcomes == {"data", "error", "throw"}

FormattedOf ==
  [h \in Histories
         \cup {getChatHistory(s, HistoryLimit, "data") : s \in StoredHistories}
     |-> formatChatHistoryForAI(h)]

\* formatChatHistoryForAI(chatHistory)
FormatChatHistoryForAI(chatHistory) ==
  /\ seen' = Some([chatHistory |-> chatHistory,
                   formatted |-> FormattedOf[chatHistory]])
  /\ op' = Label("formatChatHistoryForAI", 0, "none")
  /\ ret' = NotCalled /\ found' = NoQuery
  /\ UNCHANGED <<chatVars, clock, cacheVars, indexVars, firstAfterClear>>

\* getChatHistory(userId, 6) and formatChatHistoryForAI of its result, as the
\* chat handler calls them; the read delivers rows, reports an error or throws
GetChatHistory(stored, outcome) ==
  LET chatHistory == getChatHistory(stored, HistoryLimit, outcome)
  IN  /\ seen' = Some([stored |-> stored, chatHistory |-> chatHistory,
                       formatted |-> FormattedOf[chatHistory]])
      /\ op' = Label("getChatHistory", 0, outcome)
      /\ ret' = NotCalled /\ found' = NoQuery
      /\ UNCHANGED <<chatVars, clock, cacheVars, indexVars, firstAfterClear>>

NextMemory ==
  \/ \E h \in Histories : FormatChatHistoryForAI(h)
  \/ \E s \in StoredHistories : \E o \in ReadOutcomes : GetChatHistory(s, o)

SpecMemory == Init /\ [][NextMemory]_vars

----------------------------------------------------------------------------
(* The cache-warming endpoint: pages/api/performance/warm-cache *)

\* the five getSmartProductContext(query, contextFiles.product) calls of the
\* handler, their results dropped: the index they leave
WarmedIndex(index, lastUpdated, productData, now) ==
  IF NeedsRebuild(index, lastUpdated, now)
    THEN [index |-> Some(BuiltIndexOf[productData]), lastUpdated |-> now]
    ELSE [index |-> index, lastUpdated |-> lastUpdated]

\* the handler from `if (!contextFiles)` on, contextFiles being what
\* getCachedContextFiles returned by way of `source`
WarmCacheRespond(p, force, contextFiles, source) ==
  /\ ret' = Returned(contextFiles)
  /\ IF contextFiles = None
       THEN /\ UNCHANGED indexVars
            /\ seen' = Some([status |-> 500, force |-> force, source |-> source,
                             message |-> "Failed to warm context cache"])
       ELSE LET warmed == WarmedIndex(productIndex, indexLastUpdated,
                                      contextFiles[1].product, clock)
            IN  /\ productIndex' = warmed.index
                /\ indexLastUpdated' = warmed.lastUpdated
                /\ seen' = Some([status |-> 200, force |-> force,
                                 source |-> source,
                                 message |-> "Cache warmed successfully"])
  /\ op' = Label("warmCache", p, source)
  /\ found' = NoQuery
  /\ UNCHANGED <<chatVars, clock, firstAfterClear>>

\* POST warm-cache up to the await inside getCachedContextFiles: with force
\* the cache is cleared first; a hit lets the handler run to its response
WarmCacheCall(p, force) ==
  LET cache == IF force THEN None ELSE contextCache
  IN  /\ pc[p] = "idle"
      /\ contextCache' = cache
      /\ IF IsHit(cache, clock)
           THEN /\ WarmCacheRespond(p, force, Some(cache[1].data), "hit")
                /\ UNCHANGED <<pc, callNow>>
           ELSE /\ pc' = [pc EXCEPT ![p] = IF force THEN "warmingForced"
                                           ELSE "warming"]
                /\ callNow' = [callNow EXCEPT ![p] = clock]
                /\ ret' = Pending
                /\ op' = Label("warmCache", p, "load")
                /\ found' = NoQuery /\ seen' = None
                /\ UNCHANGED <<chatVars, clock, indexVars, firstAfterClear>>

\* the loader of a warm-cache request resolves (None: null)
WarmCacheLoaderResolves(p, fresh) ==
  /\ pc[p] \in {"warming", "warmingForced"}
  /\ contextCache' = CacheAfterLoad(contextCache, fresh, callNow[p])
  /\ pc' = [pc EXCEPT ![p] = "idle"]
  /\ callNow' = [callNow EXCEPT ![p] = 0]
  /\ WarmCacheRespond(p, pc[p] = "warmingForced",
                      IF fresh = None THEN StaleOrNull(contextCache) ELSE fresh,
                      IF fresh # None THEN "loaded"
                      ELSE IF contextCache # None THEN "stale" ELSE "null")

\* the loader of a warm-cache request rejects: getCachedContextFiles throws
\* and the handler's catch answers
WarmCacheLoaderRejects(p) ==
  /\ pc[p] \in {"warming", "warmingForced"}
  /\ pc' = [pc EXCEPT ![p] = "idle"]
  /\ callNow' = [callNow EXCEPT ![p] = 0]
  /\ ret' = Rejected
  /\ seen' = Some([status |-> 500, force |-> pc[p] = "warmingForced",
                   source |-> "reject", message |-> "Failed to warm cache"])
  /\ op' = Label("warmCache", p, "reject")
  /\ found' = NoQuery
  /\ UNCHANGED <<chatVars, clock, contextCache, indexVars, firstAfterClear>>

NextWarm ==
  \/ Tick
  \/ \E p \in Handlers : \E force \in BOOLEAN : WarmCacheCall(p, force)
  \/ \E p \in Handlers : \E d \in ContextDocs :
       WarmCacheLoaderResolves(p, Some(d))
  \/ \E p \in Handlers : WarmCacheLoaderResolves(p, None)
  \/ \E p \in Handlers : WarmCacheLoaderRejects(p)

SpecWarm == Init /\ [][NextWarm]_vars

----------------------------------------------------------------------------
(* The chat endpoint: pages/api/ai-chat over the users and chats tables *)

\* uuidRegex.test(id)
IsUuid(id) ==
  LET hex == {"0","1","2","3","4","5","6","7","8","9","a","b","c","d","e",
              "f","A","B","C","D","E","F"}
  IN  /\ Len(id) = 36
      /\ \A i \in 1..36 :
           IF i \in {9, 14, 19, 24} THEN id[i] = "-"
           ELSE IF i = 15 THEN id[i] \in {"1","2","3","4","5"}
           ELSE IF i = 20 THEN id[i] \in {"8","9","a","b","A","B"}
           ELSE id[i] \in hex

ValidUserId == <<"1","2","3","e","4","5","6","7","-","e","8","9","b","-","4","2","d","3","-","a","4","5","6","-","4","2","6","6","1","4","1","7","4","0","0","0">>
InvalidUserId == <<"g","u","e","s","t","-","1">>
\* the userId of a request body; <<>> is a field left out
UserIds == {<<>>, ValidUserId, InvalidUserId}

\* what callGPT5Nano returns: the model's text, or the apology of its catch
LlmReply == <<"O","u","r"," ","b","a","b","y"," ","d","o","l","l"," ","i","s"," ","a"," ","l","o","v","e","l","y"," ","c","h","o","i","c","e",".">>
LlmApology == <<"I"," ","a","p","o","l","o","g","i","z","e",","," ","b","u","t"," ","I","'","m"," ","h","a","v","i","n","g"," ","t","r","o","u","b","l","e"," ","c","o","n","n","e","c","t","i","n","g"," ","r","i","g","h","t"," ","n","o","w","."," ","P","l","e","a","s","e"," ","t","r","y"," ","a","g","a","i","n"," ","i","n"," ","a"," ","m","o","m","e","n","t"," ","o","r"," ","c","o","n","t","a","c","t"," ","o","u","r"," ","s","u","p","p","o","r","t"," ","t","e","a","m"," ","a","t"," ","9","5","9","2","0","2","0","8","9","8"," ","f","o","r"," ","i","m","m","e","d","i","a","t","e"," ","a","s","s","i","s","t","a","n","c","e",".">>

\* a row of the chats table; request is the handler that inserted it
\* (0: a row of an earlier conversation)
ChatRow(userId, role, message, request) ==
  [user_id |-> userId, role |-> role, message |-> message,
   request |-> request]

EarlierChats ==
  << ChatRow(ValidUserId, UserRole, <<"M","y"," ","s","o","n"," ","i","s"," ","3"," ","y","e","a","r","s"," ","o","l","d",","," ","h","e"," ","w","a","n","t","s"," ","a"," ","c","a","r">>, 0),
     ChatRow(ValidUserId, AssistantRole, <<"T","r","y"," ","t","h","e"," ","p","u","s","h"," ","c","a","r",".">>, 0) >>

\* the store when the requests arrive: empty, the user known, or the user
\* known with an earlier conversation
InitChat ==
  /\ InitProgram
  /\ firstAfterClear = Untracked
  /\ \E store \in {[users |-> {}, chats |-> <<>>],
                   [users |-> {ValidUserId}, chats |-> <<>>],
                   [users |-> {ValidUserId}, chats |-> EarlierChats]} :
       users = store.users /\ chats = store.chats
  /\ req = [p \in Callers |-> IdleRequest]

\* res.status(status).json({ error }) and the handler returns
ChatRespond(r, status, error) ==
  [r EXCEPT !.pc = "done", !.status = status, !.error = error]

ChatStep(p, step) == op' = Label("aiChat", p, step) /\ NoResult

\* the handler up to `await getUserById(userId)`
AiChatRequest(p, method, userId, message) ==
  /\ req[p].pc = "idle"
  /\ LET r == [req[p] EXCEPT !.method = method, !.userId = userId,
                             !.message = message]
     IN  req' = [req EXCEPT ![p] =
           IF method # "POST" THEN ChatRespond(r, 405, "Method not allowed")
           ELSE IF userId = <<>> \/ message = <<>>
             THEN ChatRespond(r, 400,
                              "Missing required fields: userId and message")
           ELSE [r EXCEPT !.pc = "getUserById"]]
  /\ ChatStep(p, "request")
  /\ UNCHANGED <<users, chats, clock, cacheVars, indexVars, firstAfterClear>>

\* Promise.all([getCachedContextFiles(...), getChatHistory(...)]) up to its
\* await: getCachedContextFiles runs to a hit or to the loader's invocation,
\* the history query is issued
AwaitContextAndHistory(p, r) ==
  IF IsHit(contextCache, clock)
    THEN /\ req' = [req EXCEPT ![p] =
                      [r EXCEPT !.pc = "loading",
                                !.context =
                                  Returned(Some(contextCache[1].data))]]
         /\ UNCHANGED <<pc, callNow>>
    ELSE /\ req' = [req EXCEPT ![p] =
                      [r EXCEPT !.pc = "loading", !.context = Pending]]
         /\ pc' = [pc EXCEPT ![p] = "loading"]
         /\ callNow' = [callNow EXCEPT ![p] = clock]

\* getUserById settles; without a user createUser is called
AiChatUserLookup(p, healthy) ==
  /\ req[p].pc = "getUserById"
  /\ IF healthy /\ IsUuid(req[p].userId) /\ req[p].userId \in users
       THEN AwaitContextAndHistory(p, req[p])
       ELSE /\ req' = [req EXCEPT ![p].pc = "createUser"]
            /\ UNCHANGED <<pc, callNow>>
  /\ ChatStep(p, "getUserById")
  /\ UNCHANGED <<users, chats, clock, contextCache, indexVars,
                 firstAfterClear>>

\* createUser settles: the insert fails on an id that is no UUID or that the
\* table already holds (id is the primary key)
AiChatCreateUser(p, healthy) ==
  /\ req[p].pc = "createUser"
  /\ IF healthy /\ IsUuid(req[p].userId) /\ req[p].userId \notin users
       THEN /\ users' = users \cup {req[p].userId}
            /\ AwaitContextAndHistory(p, req[p])
       ELSE /\ req' = [req EXCEPT ![p] =
                         ChatRespond(req[p], 500,
                                     "Failed to create or retrieve user")]
            /\ UNCHANGED <<users, pc, callNow>>
  /\ ChatStep(p, "createUser")
  /\ UNCHANGED <<chats, clock, contextCache, indexVars, firstAfterClear>>

\* the same without `if (!contextFiles)`: an empty product context
AiChatBuildPromptUnchecked(p, r) ==
  LET productData == IF r.context.value = None THEN <<>>
                     ELSE r.context.value[1].product
      warmed == WarmedIndex(productIndex, indexLastUpdated, productData, clock)
  IN  /\ productIndex' = warmed.index
      /\ indexLastUpdated' = warmed.lastUpdated
      /\ req' = [req EXCEPT ![p] =
                   [r EXCEPT !.pc = "saveUserMessage",
                             !.memory =
                               Some(formatChatHistoryForAI(r.history[1]))]]

\* the handler from the end of Promise.all to `await saveChatMessage` of the
\* user's message; r holds the context files and the history
AiChatBuildPrompt(p, r) ==
  IF r.context.value = None
    THEN /\ req' = [req EXCEPT ![p] =
                      ChatRespond(r, 500, "Failed to load system context")]
         /\ UNCHANGED indexVars
    ELSE LET warmed == WarmedIndex(productIndex, indexLastUpdated,
                                   r.context.value[1].product, clock)
         IN  /\ productIndex' = warmed.index
             /\ indexLastUpdated' = warmed.lastUpdated
             /\ req' = [req EXCEPT ![p] =
                          [r EXCEPT !.pc = "saveUserMessage",
                                    !.memory =
                                      Some(formatChatHistoryForAI(
                                             r.history[1]))]]

\* the history query runs: getChatHistory(userId, 6) settles
AiChatHistoryRead(p, outcome) ==
  /\ req[p].pc = "loading"
  /\ req[p].history = None
  /\ LET stored == SelectSeq(chats, LAMBDA c : c.user_id = req[p].userId)
         r == [req[p] EXCEPT
                 !.history = Some(getChatHistory(stored, HistoryLimit,
                                                 outcome))]
     IN  IF r.context.status = "returned"
           THEN AiChatBuildPrompt(p, r)
           ELSE req' = [req EXCEPT ![p] = r] /\ UNCHANGED indexVars
  /\ ChatStep(p, "getChatHistory")
  /\ UNCHANGED <<users, chats, clock, cacheVars, firstAfterClear>>

\* the loader of the handler's getCachedContextFiles call resolves
AiChatLoaderResolves(p, fresh) ==
  /\ req[p].pc = "loading"
  /\ req[p].context = Pending
  /\ contextCache' = CacheAfterLoad(contextCache, fresh, callNow[p])
  /\ pc' = [pc EXCEPT ![p] = "idle"]
  /\ callNow' = [callNow EXCEPT ![p] = 0]
  /\ LET r == [req[p] EXCEPT
                 !.context = Returned(IF fresh = None
                                        THEN StaleOrNull(contextCache)
                                        ELSE fresh)]
     IN  IF r.history # None
           THEN AiChatBuildPrompt(p, r)
           ELSE req' = [req EXCEPT ![p] = r] /\ UNCHANGED indexVars
  /\ ChatStep(p, IF fresh = None THEN "noContext" ELSE "context")
  /\ UNCHANGED <<users, chats, clock, firstAfterClear>>

\* the loader rejects: Promise.all rejects and the handler's catch answers
AiChatLoaderRejects(p) ==
  /\ req[p].pc = "loading"
  /\ req[p].context = Pending
  /\ pc' = [pc EXCEPT ![p] = "idle"]
  /\ callNow' = [callNow EXCEPT ![p] = 0]
  /\ req' = [req EXCEPT ![p] =
               ChatRespond([req[p] EXCEPT !.context = Rejected], 500,
                           "Internal server error")]
  /\ ChatStep(p, "loaderRejected")
  /\ UNCHANGED <<users, chats, clock, contextCache, indexVars,
                 firstAfterClear>>

\* the same with callGPT5Nano called ahead of the save
AiChatSaveUserMessageAfterLLM(p, saved) ==
  /\ req[p].pc = "saveUserMessage"
  /\ UNCHANGED chats
  /\ req' = [req EXCEPT ![p].pc = "callGPT5Nano",
                        ![p].llmCalls = req[p].llmCalls + 1]
  /\ ChatStep(p, "saveUserMessage")
  /\ UNCHANGED <<users, clock, cacheVars, indexVars, firstAfterClear>>

\* saveChatMessage of the user's message settles; on a row callGPT5Nano is
\* called
AiChatSaveUserMessage(p, saved) ==
  /\ req[p].pc = "saveUserMessage"
  /\ IF saved
       THEN /\ chats' = Append(chats, ChatRow(req[p].userId, UserRole,
                                              req[p].message, p))
            /\ req' = [req EXCEPT ![p].pc = "callGPT5Nano",
                                  ![p].llmCalls = req[p].llmCalls + 1]
       ELSE /\ UNCHANGED chats
            /\ req' = [req EXCEPT ![p] =
                         ChatRespond(req[p], 500,
                                     "Failed to save user message")]
  /\ ChatStep(p, "saveUserMessage")
  /\ UNCHANGED <<users, clock, cacheVars, indexVars, firstAfterClear>>

\* callGPT5Nano settles, with the model's text or with its apology
AiChatLlmReturns(p, answered) ==
  /\ req[p].pc = "callGPT5Nano"
  /\ req' = [req EXCEPT ![p].pc = "saveAssistantMessage",
                        ![p].reply = Some(IF answered THEN LlmReply
                                          ELSE LlmApology)]
  /\ ChatStep(p, "callGPT5Nano")
  /\ UNCHANGED <<users, chats, clock, cacheVars, indexVars, firstAfterClear>>

\* saveChatMessage of the reply settles and the handler answers
AiChatSaveAssistantMessage(p, saved) ==
  /\ req[p].pc = "saveAssistantMessage"
  /\ IF saved
       THEN /\ chats' = Append(chats, ChatRow(req[p].userId, AssistantRole,
                                              req[p].reply[1], p))
            /\ req' = [req EXCEPT ![p] = ChatRespond(req[p], 200, "")]
       ELSE /\ UNCHANGED chats
            /\ req' = [req EXCEPT ![p] =
                         ChatRespond(req[p], 500,
                                     "Failed to save assistant message")]
  /\ ChatStep(p, "saveAssistantMessage")
  /\ UNCHANGED <<users, clock, cacheVars, indexVars, firstAfterClear>>

\* one request per handler, against a store and a loader that may fail
NextChat ==
  \/ \E p \in Handlers :
       \/ \E method \in {"POST", "GET"}, userId \in UserIds, message \in Messages :
            AiChatRequest(p, method, userId, message)
       \/ \E healthy \in BOOLEAN : AiChatUserLookup(p, healthy)
       \/ \E healthy \in BOOLEAN : AiChatCreateUser(p, healthy)
       \/ \E outcome \in ReadOutcomes : AiChatHistoryRead(p, outcome)
       \/ \E d \in ContextDocs : AiChatLoaderResolves(p, Some(d))
       \/ AiChatLoaderResolves(p, None)
       \/ AiChatLoaderRejects(p)
       \/ \E saved \in BOOLEAN : AiChatSaveUserMessage(p, saved)
       \/ \E answered \in BOOLEAN : AiChatLlmReturns(p, answered)
       \/ \E saved \in BOOLEAN : AiChatSaveAssistantMessage(p, saved)

SpecChat == InitChat /\ [][NextChat]_vars

\* two requests of one new user against a healthy store and loader
NextEnsureUser ==
  \E p \in Callers :
    \/ AiChatRequest(p, "POST", ValidUserId, <<"d","o","l","l">>)
    \/ AiChatUserLookup(p, TRUE)
    \/ AiChatCreateUser(p, TRUE)
    \/ AiChatHistoryRead(p, "data")
    \/ \E d \in ContextDocs : AiChatLoaderResolves(p, Some(d))
    \/ AiChatSaveUserMessage(p, TRUE)
    \/ AiChatLlmReturns(p, TRUE)
    \/ AiChatSaveAssistantMessage(p, TRUE)

SpecEnsureUser == Init /\ [][NextEnsureUser]_vars

----------------------------------------------------------------------------
(* Properties *)

ProductQueries == {"findRelevantProducts", "getSmartProductContext"}

\* the catalog texts without any line that starts with the canonical prefix
NoProductLine(catalog) ==
  LET lines == split(catalog, "\n")
  IN  \A i \in DOMAIN lines : ~startsWith(lines[i], ProductUrlPrefix)
MalformedCatalogs == {c \in Catalogs : NoProductLine(c)}

\* the score of every entry of an index for a query
ScoresOf ==
  [entries \in {BuiltIndexOf[c] : c \in Catalogs} |->
     [q \in Queries |->
        [i \in DOMAIN entries |->
           calculateRelevanceScore(SearchTermsOf[q], entries[i])]]]

Min(a, b) == IF a < b THEN a ELSE b

\* C1: a getCachedContextFiles call made while an entry is cached and
\* now < expires returns that entry's data without invoking the loader; a call
\* made with no entry or with now >= expires invokes the loader; and every
\* entry expires exactly five minutes after it was loaded, so calls inside one
\* TTL window after a load are served by that one load.
C1_HitWithinTtlElseLoad ==
  [][/\ op'.name = "getCachedContextFiles" =>
          IF contextCache # None /\ clock < contextCache[1].expires
            THEN ret' = Returned(Some(contextCache[1].data)) /\ pc' = pc
            ELSE /\ pc[op'.proc] = "idle" /\ pc'[op'.proc] = "loading"
                 /\ ret' = Pending
     /\ contextCache' # None =>
          contextCache'[1].expires - contextCache'[1].lastModified
            = 5 * 60 * 1000]_vars

\* a hit served some time after the entry was loaded
C1_Witness ==
  /\ op.name = "getCachedContextFiles"
  /\ contextCache # None
  /\ ret = Returned(Some(contextCache[1].data))
  /\ clock > contextCache[1].lastModified

\* C2: when the loader returns null, the call returns the data of the entry
\* stored by an earlier successful load, even if that entry has expired, and
\* returns null only when the cache holds no entry.
C2_StaleIfError ==
  [][(op'.name = "loaderSettled" /\ op'.outcome = "null") =>
        ret' = Returned(IF contextCache = None THEN None
                        ELSE Some(contextCache[1].data))]_vars

\* the loader failed after the entry had expired and the stale data was served
C2_Witness ==
  /\ op.name = "loaderSettled" /\ op.outcome = "null"
  /\ contextCache # None
  /\ clock >= contextCache[1].expires
  /\ ret = Returned(Some(contextCache[1].data))

\* C3: when the loader throws or its promise rejects, getCachedContextFiles
\* still returns normally: the stale entry's data if an entry exists, null
\* otherwise.
C3_LoaderFailureNeverThrows ==
  (op.name = "loaderSettled" /\ op.outcome = "reject") =>
     ret = Returned(IF contextCache = None THEN None
                    ELSE Some(contextCache[1].data))

\* C4: no step of a getCachedContextFiles call whose loader throws, rejects
\* or returns null changes the cached entry: the entry, or the empty cache, is
\* afterwards what it was before.
C4_FailedLoadKeepsCache ==
  [][(\/ op'.name = "getCachedContextFiles"
      \/ op'.name = "loaderSettled" /\ op'.outcome \in {"null", "reject"})
        => contextCache' = contextCache]_vars

\* a load failed while an entry was cached
C4_Witness ==
  /\ op.name = "loaderSettled" /\ op.outcome \in {"null", "reject"}
  /\ contextCache # None
  /\ clock >= contextCache[1].expires

\* C5: clearContextCache empties the cache, the next getCachedContextFiles
\* call invokes the loader instead of returning cached data, and if that load
\* fails (the loader returns null, throws or rejects) the call returns null.
C5_NextCallAfterClearLoads ==
  [][/\ op'.name = "clearContextCache" => contextCache' = None
     /\ (op'.name = "getCachedContextFiles" /\ firstAfterClear = Cleared) =>
          pc'[op'.proc] = "loading"
     /\ (op'.name = "loaderSettled" /\ op'.outcome \in {"null", "reject"}
           /\ firstAfterClear = FirstCall(op'.proc)) =>
          ret' = Returned(None)]_vars

\* C6: every product query rebuilds the index from its own catalog text and
\* stamps it with now when the index is absent or older than ten minutes, and
\* otherwise leaves index and stamp alone; the index it scores is therefore
\* never older than the TTL.
C6_IndexRebuiltWhenExpired ==
  [][op'.name \in ProductQueries =>
       /\ IF productIndex = None \/ clock - indexLastUpdated > 10 * 60 * 1000
            THEN /\ productIndex' = Some(BuiltIndexOf[found'.productData])
                 /\ indexLastUpdated' = clock
            ELSE UNCHANGED <<productIndex, indexLastUpdated>>
       /\ clock' - indexLastUpdated' <= 10 * 60 * 1000]_vars

\* an index exactly ten minutes old was reused, for a call with another catalog
C6_Witness ==
  /\ op.name \in ProductQueries
  /\ clock - indexLastUpdated = 10 * 60 * 1000
  /\ productIndex # Some(BuiltIndexOf[found.productData])

\* C7, as claimed: after any product query with a catalog text that has no
\* product line, the index is the empty list and the query returned no match.
C7_MalformedCatalogEmptiesIndex ==
  (op.name \in ProductQueries /\ found.productData \in MalformedCatalogs) =>
     /\ productIndex = Some(<<>>)
     /\ found.matches = <<>>
     /\ op.name = "getSmartProductContext" =>
          found.context = Some(NoProductContext)

\* C7, amended: a product query that rebuilds the index (index absent or older
\* than ten minutes) from a catalog text without product lines leaves the
\* empty list as index and returns no match, whatever the query and the index
\* before.
C7_RebuildFromMalformedCatalog ==
  [][(/\ op'.name \in ProductQueries
      /\ found'.productData \in MalformedCatalogs
      /\ (productIndex = None \/ clock - indexLastUpdated > 10 * 60 * 1000)) =>
        /\ productIndex' = Some(<<>>)
        /\ found'.matches = <<>>
        /\ op'.name = "getSmartProductContext" =>
             found'.context = Some(NoProductContext)]_vars

\* an expired, non-empty index was replaced by the empty one
C7_Witness ==
  /\ op.name \in ProductQueries
  /\ found.productData = CatalogNoise
  /\ SearchTermsOf[found.query] # <<>>
  /\ productIndex = Some(<<>>)
  /\ indexLastUpdated = clock
  /\ clock > StartClock + 10 * 60 * 1000

\* at most limit matches, all with a positive score, best first
BoundedAndSorted(matches, limit) ==
  /\ Len(matches) <= limit
  /\ \A k \in DOMAIN matches : matches[k].score > 0
  /\ \A k \in 1..(Len(matches) - 1) : matches[k].score >= matches[k + 1].score

\* the matches are the limit best of the entries with a positive score: each
\* match is an entry with its score, no entry is returned twice, none is
\* missing while there is room, and no entry left out scores higher than a
\* returned one
BestPositive(matches, entries, scores, limit) ==
  LET positive == {i \in DOMAIN entries : scores[i] > 0}
  IN  /\ Len(matches) = Min(limit, Cardinality(positive))
      /\ \E pick \in [DOMAIN matches -> positive] :
           /\ \A k \in DOMAIN matches :
                matches[k] = [entries[pick[k]] EXCEPT !.score = scores[pick[k]]]
           /\ \A j, k \in DOMAIN matches : j # k => pick[j] # pick[k]
           /\ \A i \in positive :
                (\A k \in DOMAIN matches : pick[k] # i) =>
                   \A k \in DOMAIN matches : scores[i] <= matches[k].score

\* C8, as claimed: for every query and limit, findRelevantProducts returns at
\* most limit entries, all with a positive score, in non-increasing order of
\* score, and they are the limit highest-scoring entries of the index among
\* those that calculateRelevanceScore scores above 0.
C8_TopLimitMatches ==
  op.name \in ProductQueries =>
     /\ BoundedAndSorted(found.matches, found.limit)
     /\ BestPositive(found.matches, productIndex[1],
                     ScoresOf[productIndex[1]][found.query], found.limit)

\* C8, amended: for every limit that is not negative the result has at most
\* limit entries, all with a positive score, in non-increasing order of score;
\* and when the query yields at least one search term they are the limit
\* highest-scoring positive entries of the index.
C8_TopLimitMatchesNonNegative ==
  (op.name \in ProductQueries /\ found.limit >= 0) =>
     /\ BoundedAndSorted(found.matches, found.limit)
     /\ SearchTermsOf[found.query] # <<>> =>
          BestPositive(found.matches, productIndex[1],
                       ScoresOf[productIndex[1]][found.query], found.limit)

\* the limit cut off a positive entry, and another entry scored 0
C8_Witness ==
  /\ op.name = "findRelevantProducts"
  /\ found.limit = 2 /\ Len(found.matches) = 2
  /\ \E i, j \in DOMAIN productIndex[1] :
       /\ ScoresOf[productIndex[1]][found.query][i] = 0
       /\ ScoresOf[productIndex[1]][found.query][j] > 0
       /\ \A k \in DOMAIN found.matches : found.matches[k].url # productIndex[1][j].url

\* C9: a query from which no search term is extracted gets the empty list
\* from findRelevantProducts and the fixed sentinel string from
\* getSmartProductContext, whatever the index holds.
C9_NoTermsNoMatches ==
  (op.name \in ProductQueries /\ SearchTermsOf[found.query] = <<>>) =>
     /\ found.matches = <<>>
     /\ op.name = "getSmartProductContext" =>
          found.context = Some(NoProductContext)

\* a query of stop words and short tokens met an index that holds products
C9_Witness ==
  /\ op.name = "getSmartProductContext"
  /\ found.query # <<>>
  /\ SearchTermsOf[found.query] = <<>>
  /\ productIndex # None /\ Len(productIndex[1]) > 1
  /\ found.context = Some(NoProductContext)

\* C10: getProductIndexStats and getCacheStatus change nothing: not the index
\* or its time stamp (even when the index is absent or expired), not the
\* context cache entry, and no loader is invoked.
C10_IntrospectionReadOnly ==
  [][op'.name \in {"getProductIndexStats", "getCacheStatus"} =>
       UNCHANGED <<clock, contextCache, pc, callNow, productIndex,
                   indexLastUpdated>>]_vars

\* the status of an expired entry was read while the index had expired too
C10_Witness ==
  /\ op.name \in {"getProductIndexStats", "getCacheStatus"}
  /\ contextCache # None /\ clock >= contextCache[1].expires
  /\ productIndex # None /\ clock - indexLastUpdated > 10 * 60 * 1000

\* C11: under every interleaving of overlapping getCachedContextFiles calls and
\* findRelevantProducts calls, each singleton is only ever written whole by one
\* call: a new context entry holds the data that the settling call's loader
\* resolved with, that same call's now as lastModified and that now plus five
\* minutes as expires, and a new product index is the complete
\* buildProductIndex output for the catalog of the call that rebuilt it.
C11_SingletonsWrittenWhole ==
  [][/\ (contextCache' # contextCache /\ contextCache' # None) =>
          /\ op'.name = "loaderSettled" /\ op'.outcome = "data"
          /\ ret'.status = "returned" /\ ret'.value \in {Some(d) : d \in ContextDocs}
          /\ contextCache' =
               Some([data |-> ret'.value[1],
                     lastModified |-> callNow[op'.proc],
                     expires |-> callNow[op'.proc] + 5 * 60 * 1000])
     /\ productIndex' # productIndex =>
          /\ op'.name = "findRelevantProducts"
          /\ productIndex' = Some(BuiltIndexOf[found'.productData])]_vars

\* a call that overlapped a later one replaced the entry the later one is
\* still loading for, while an index is in place
C11_Witness ==
  /\ op.name = "loaderSettled" /\ op.outcome = "data"
  /\ contextCache # None
  /\ \E q \in Callers :
       /\ pc[q] = "loading"
       /\ callNow[q] > contextCache[1].lastModified
  /\ productIndex # None /\ indexLastUpdated > StartClock

\* C12: the two caches live independently: no step of getCachedContextFiles
\* and no clearContextCache changes productIndex or indexLastUpdated, no
\* product query changes the context cache entry or a call in flight, an index
\* at most ten minutes old is reused whatever the state of the context entry,
\* and an entry less than five minutes old is served whatever the age of the
\* index.
C12_IndependentLifecycles ==
  [][/\ op'.name \in {"getCachedContextFiles", "loaderSettled", "clearContextCache"} =>
          UNCHANGED <<productIndex, indexLastUpdated>>
     /\ op'.name \in ProductQueries =>
          /\ UNCHANGED <<contextCache, pc, callNow>>
          /\ (productIndex # None /\ clock - indexLastUpdated <= 10 * 60 * 1000) =>
               UNCHANGED <<productIndex, indexLastUpdated>>
     /\ (op'.name = "getCachedContextFiles" /\ contextCache # None
           /\ clock - contextCache[1].lastModified < 5 * 60 * 1000) =>
          ret' = Returned(Some(contextCache[1].data))]_vars

\* a product query reused the index although the context entry had expired
C12_Witness ==
  /\ op.name \in ProductQueries /\ op.outcome = "reuse"
  /\ contextCache # None /\ clock >= contextCache[1].expires
  /\ clock - indexLastUpdated > 5 * 60 * 1000

\* C13: index entries are never changed in place: a product query that does
\* not rebuild leaves the index, entry by entry and in the same order, as it
\* was; every entry of the index keeps the stored score 0 while the returned
\* copies carry the computed scores; and the index changes only by being
\* replaced by a complete new build.
C13_IndexNeverMutatedInPlace ==
  [][op'.name \in ProductQueries =>
       /\ op'.outcome = "reuse" => productIndex' = productIndex
       /\ productIndex' # productIndex =>
            productIndex' = Some(BuiltIndexOf[found'.productData])
       /\ \A i \in DOMAIN productIndex'[1] : productIndex'[1][i].score = 0
       /\ \A k \in DOMAIN found'.matches :
            /\ found'.matches[k].score > 0
            /\ \E i \in DOMAIN productIndex'[1] :
                 productIndex'[1][i] = [found'.matches[k] EXCEPT !.score = 0]]_vars

\* a query answered from the existing index returned scored copies in another
\* order than the index holds them
C13_Witness ==
  /\ op.name \in ProductQueries /\ op.outcome = "reuse"
  /\ Len(found.matches) >= 2
  /\ found.matches[1].url # productIndex[1][1].url
  /\ productIndex[1][1].url \in {found.matches[k].url : k \in DOMAIN found.matches}

\* C14: whenever two entries returned by a product query have the same score,
\* the one returned first stands first in the index, that is in the catalog.
C14_TiesKeepIndexOrder ==
  op.name \in ProductQueries =>
     \A j, k \in DOMAIN found.matches :
        (j < k /\ found.matches[j].score = found.matches[k].score
           /\ found.matches[j].url # found.matches[k].url) =>
          \E a, b \in DOMAIN productIndex[1] :
             /\ a < b
             /\ productIndex[1][a].url = found.matches[j].url
             /\ productIndex[1][b].url = found.matches[k].url

\* two different products were returned with the same score, after a better one
C14_Witness ==
  /\ op.name = "findRelevantProducts"
  /\ \E j, k \in DOMAIN found.matches :
       /\ 1 < j /\ j < k
       /\ found.matches[j].score = found.matches[k].score
       /\ found.matches[j].url # found.matches[k].url
       /\ found.matches[1].score > found.matches[j].score

\* t occurs in text as a run of consecutive characters
IsSubstring(t, text) ==
  \E i \in 0..(Len(text) - Len(t)) : SubSeq(text, i + 1, i + Len(t)) = t

\* the six popular words
PopularWords ==
    {<<"c","a","r">>,
     <<"b","i","k","e">>,
     <<"d","o","l","l">>,
     <<"e","d","u","c","a","t","i","o","n","a","l">>,
     <<"s","t","r","o","l","l","e","r">>,
     <<"s","c","o","o","t","e","r">>}

\* name + ' ' + space-joined keywords
EntryText(entry) == entry.name \o <<" ">> \o join(entry.keywords, <<" ">>)

\* the reference sum of C15
ReferenceScore(terms, entry) ==
  LET text == EntryText(entry)
      Prefix(t) == SubSeq(t, 1, IF Len(t) < 4 THEN Len(t) ELSE 4)
  IN  10 * Cardinality({i \in DOMAIN terms : IsSubstring(terms[i], text)})
      + 3 * Cardinality({i \in DOMAIN terms : IsSubstring(Prefix(terms[i]), text)})
      + 15 * Cardinality({i \in DOMAIN terms :
                            \E k \in DOMAIN entry.keywords : entry.keywords[k] = terms[i]})
      + 2 * Cardinality({w \in PopularWords : IsSubstring(w, text)})

\* the entry and the term set of the example of C15
ExampleEntry ==
  [url |-> PushCarUrl, slug |-> SlugOf(PushCarUrl), name |-> NameOf(SlugOf(PushCarUrl)),
   score |-> 0, keywords |-> <<<<"c","a","r">>, <<"k","i","d","s">>>>]
ExampleTerms == <<<<"c","a","r">>, <<"k","i","d","s">>>>
ExampleScore == calculateRelevanceScore(ExampleTerms, ExampleEntry)

\* C15: calculateRelevanceScore is the reference sum: per search term 10 if it
\* is a substring of name + ' ' + keywords, 3 if its first min(4, length)
\* characters are, 15 if it is one of the keywords, all three stacking, and 2
\* for each of the six popular words that is a substring of that text; the
\* entry 'push car rabbit car for kids' with keywords car, kids scores at
\* least 47 against car, kids.
C15_ScoreIsReferenceSum ==
  /\ op.name \in ProductQueries =>
       /\ \A i \in DOMAIN productIndex[1] :
            ScoresOf[productIndex[1]][found.query][i]
              = ReferenceScore(SearchTermsOf[found.query], productIndex[1][i])
       /\ \A k \in DOMAIN found.matches :
            found.matches[k].score
              = ReferenceScore(SearchTermsOf[found.query], found.matches[k])
  /\ ExampleScore = ReferenceScore(ExampleTerms, ExampleEntry)
  /\ ExampleScore >= 47

\* the example's product was returned with a score in which all three tiers
\* and the popularity bonus add up, beside a product with the bonus alone
C15_Witness ==
  /\ op.name = "findRelevantProducts"
  /\ \E j, k \in DOMAIN found.matches :
       /\ found.matches[j].name = ExampleEntry.name
       /\ found.matches[j].score >= 47
       /\ found.matches[k].score = 2

\* no search term matches the entry: none is a substring of its text, none has
\* its first four characters there, none is one of its keywords
NoTermMatches(terms, entry) ==
  \A i \in DOMAIN terms :
     /\ ~IsSubstring(terms[i], EntryText(entry))
     /\ ~IsSubstring(SubSeq(terms[i], 1, IF Len(terms[i]) < 4 THEN Len(terms[i]) ELSE 4),
                     EntryText(entry))
     /\ \A k \in DOMAIN entry.keywords : entry.keywords[k] # terms[i]

Returns(matches, entry) ==
  \E k \in DOMAIN matches : matches[k].url = entry.url

\* C16, as claimed: every score is a non-negative integer, and an entry that no
\* search term matches scores 0 and is not returned.
C16_NoMatchScoresZero ==
  op.name \in ProductQueries =>
     \A i \in DOMAIN productIndex[1] :
        /\ ScoresOf[productIndex[1]][found.query][i] \in Nat
        /\ NoTermMatches(SearchTermsOf[found.query], productIndex[1][i]) =>
             /\ ScoresOf[productIndex[1]][found.query][i] = 0
             /\ ~Returns(found.matches, productIndex[1][i])

\* C16, amended: every score is a non-negative integer and an entry with score
\* 0 is never returned; an entry that no search term matches scores 2 for
\* each popular word in its text, so it scores 0, and is excluded, exactly
\* when its text holds no popular word.
C16_NoMatchScoresPopularityOnly ==
  op.name \in ProductQueries =>
     \A i \in DOMAIN productIndex[1] :
        LET score == ScoresOf[productIndex[1]][found.query][i]
            entry == productIndex[1][i]
            bonus == 2 * Cardinality({w \in PopularWords :
                                       IsSubstring(w, EntryText(entry))})
        IN  /\ score \in Nat
            /\ score = 0 => ~Returns(found.matches, entry)
            /\ NoTermMatches(SearchTermsOf[found.query], entry) =>
                 /\ score = bonus
                 /\ score = 0 <=> bonus = 0

\* a product that no term matches was returned with the popularity bonus as
\* its score, and one without a popular word was left out with score 0
C16_Witness ==
  /\ op.name = "findRelevantProducts"
  /\ \E i, j \in DOMAIN productIndex[1] :
       /\ NoTermMatches(SearchTermsOf[found.query], productIndex[1][i])
       /\ ScoresOf[productIndex[1]][found.query][i] = 2
       /\ Returns(found.matches, productIndex[1][i])
       /\ NoTermMatches(SearchTermsOf[found.query], productIndex[1][j])
       /\ ScoresOf[productIndex[1]][found.query][j] = 0
       /\ ~Returns(found.matches, productIndex[1][j])

\* one of the terms is a keyword of the entry
TermInKeywords(terms, entry) ==
  \E i \in DOMAIN terms : \E k \in DOMAIN entry.keywords : entry.keywords[k] = terms[i]

\* the entry matches the terms, but only as substrings or prefixes in its text
MatchesOnlyAsSubstring(terms, entry) ==
  ~TermInKeywords(terms, entry) /\ ~NoTermMatches(terms, entry)

\* every returned entry that matches only as substring comes after every entry
\* of the index that has a term among its keywords
KeywordEntriesFirst(terms, entries, matches) ==
  \A a, b \in DOMAIN entries :
     (TermInKeywords(terms, entries[a]) /\ MatchesOnlyAsSubstring(terms, entries[b])) =>
        \A k \in DOMAIN matches :
           matches[k].url = entries[b].url =>
              \E j \in 1..(k - 1) : matches[j].url = entries[a].url

\* C17, as claimed: for any search-term set, an entry that has one of the terms
\* in its keywords is ranked before every entry that matches the terms only as
\* substrings or prefixes.
C17_KeywordMatchesRankFirst ==
  op.name \in ProductQueries =>
     KeywordEntriesFirst(SearchTermsOf[found.query], productIndex[1], found.matches)

\* C17, amended: for a query with exactly one search term, an entry that has
\* the term in its keywords is ranked before every entry that matches it only
\* as substring or prefix.
C17_KeywordMatchRanksFirstForOneTerm ==
  (op.name \in ProductQueries /\ Len(SearchTermsOf[found.query]) = 1) =>
     KeywordEntriesFirst(SearchTermsOf[found.query], productIndex[1], found.matches)

\* for one search term, the product with the keyword was returned before one
\* that holds the term inside a longer word and has more popular words
C17_Witness ==
  /\ op.name = "findRelevantProducts"
  /\ Len(SearchTermsOf[found.query]) = 1
  /\ Len(found.matches) >= 2
  /\ TermInKeywords(SearchTermsOf[found.query], found.matches[1])
  /\ MatchesOnlyAsSubstring(SearchTermsOf[found.query], found.matches[2])

\* the first number of a query that a unit word follows: the digit runs of
\* the query, those followed (after optional white space) by text that
\* begins with a unit, and the value of the leftmost of them
FirstAge(query) ==
  LET q == toLowerCase(query)
      IsDigits(i, j) == \A k \in i..j : q[k] \in DigitChars
      IsRun(i, j) ==
        /\ i <= j /\ IsDigits(i, j)
        /\ (i = 1 \/ q[i - 1] \notin DigitChars)
        /\ (j = Len(q) \/ q[j + 1] \notin DigitChars)
      UnitFollows(j) ==
        \E k \in (j + 1)..Len(q) :
          /\ \A s \in (j + 1)..(k - 1) : q[s] \in SpaceChars
          /\ \E u \in Range(AgeUnits) : OccursAt(q, u, k)
      runs == {r \in (DOMAIN q) \X (DOMAIN q) : IsRun(r[1], r[2]) /\ UnitFollows(r[2])}
  IN  IF runs = {} THEN None
      ELSE LET r == CHOOSE x \in runs : \A y \in runs : x[1] <= y[1]
           IN  Some(parseInt(SubSeq(q, r[1], r[2])))

AgeWords == {
    <<"b","a","b","y">>, <<"t","o","d","d","l","e","r">>, <<"k","i","d","s">>,
    <<"c","h","i","l","d">> }
SpellsAgeWord(query) == \E w \in AgeWords : includes(toLowerCase(query), w)

C19_TermsUniqueLowercaseFirstSeen ==
  op.name = "extractSearchTerms" =>
    LET q == toLowerCase(found.query)
        terms == seen[1]
        pipeline == AgeTerms(q) \o GenderTerms(q)
                      \o CategoryTerms(q, searchCategories)
                      \o MeaningfulWords(q)
        FirstSeen(t) ==
          CHOOSE i \in DOMAIN pipeline :
            pipeline[i] = t /\ \A j \in 1..(i - 1) : pipeline[j] # t
    IN  /\ \A i, j \in DOMAIN terms : i # j => terms[i] # terms[j]
        /\ \A i \in DOMAIN terms : toLowerCase(terms[i]) = terms[i]
        /\ Range(terms) = Range(pipeline)
        /\ \A i, j \in DOMAIN terms :
             i < j => FirstSeen(terms[i]) < FirstSeen(terms[j])
        /\ found.query = <<"c","a","r"," ","f","o","r"," ","3"," ","y","e","a","r"," ","o","l","d"," ","b","o","y">>
             => \A t \in {<<"k","i","d","s">>, <<"c","h","i","l","d">>, <<"b","o","y","s">>,
                           <<"c","a","r">>, <<"v","e","h","i","c","l","e">>} :
                  Contains(terms, t)

\* the example: car is a category keyword and a generic token, listed once
C19_Witness ==
  /\ op.name = "extractSearchTerms"
  /\ found.query = <<"c","a","r"," ","f","o","r"," ","3"," ","y","e","a","r"," ","o","l","d"," ","b","o","y">>
  /\ seen[1] = <<
    <<"k","i","d","s">>, <<"c","h","i","l","d">>, <<"b","o","y","s">>,
    <<"c","a","r">>, <<"v","e","h","i","c","l","e">>, <<"y","e","a","r">>,
    <<"o","l","d">>, <<"b","o","y">> >>

\* C20: the index built from a catalog has one entry for each non-blank line
\* that starts with https://thegurtoys.com/products/, in the order of the
\* lines, the line being the entry's url; every other line is skipped and a
\* line that occurs k times gives k entries. Every entry's url starts with
\* the prefix and its slug is what follows the last slash of the url.
C20_OneEntryPerProductLine ==
  op.name = "buildProductIndex" =>
    LET lines == split(found.productData, "\n")
        IsProductLine(l) ==
          /\ \E i \in DOMAIN l : l[i] \notin SpaceChars
          /\ Len(l) >= Len(ProductUrlPrefix)
          /\ SubSeq(l, 1, Len(ProductUrlPrefix)) = ProductUrlPrefix
        productLines == SelectSeq(lines, IsProductLine)
        index == seen[1]
        IsFinalSegment(slug, url) ==
          /\ Len(slug) < Len(url)
          /\ url[Len(url) - Len(slug)] = "/"
          /\ SubSeq(url, Len(url) - Len(slug) + 1, Len(url)) = slug
          /\ \A i \in DOMAIN slug : slug[i] # "/"
    IN  /\ Len(index) = Len(productLines)
        /\ \A i \in DOMAIN index :
             /\ index[i].url = productLines[i]
             /\ SubSeq(index[i].url, 1, Len(ProductUrlPrefix)) = ProductUrlPrefix
             /\ IsFinalSegment(index[i].slug, index[i].url)

\* a catalog of three lines, the same URL twice around a skipped line: two
\* equal entries
C20_Witness ==
  /\ op.name = "buildProductIndex"
  /\ Len(split(found.productData, "\n")) = 3
  /\ Len(seen[1]) = 2
  /\ seen[1][1] = seen[1][2]
  /\ seen[1][1].slug = <<"g","u","r","t","o","y","-","c","a","r">>

C22_FailedReadGivesNewConversation ==
  LET sentinel == <<"N","e","w"," ","c","o","n","v","e","r","s","a","t","i","o","n"," ","-"," ","n","o"," ","p","r","e","v","i","o","u","s"," ","c","o","n","t","e","x","t",".">>
  IN  /\ (op.name = "formatChatHistoryForAI" /\ seen[1].chatHistory = <<>>)
           => seen[1].formatted = sentinel
      /\ (op.name = "getChatHistory" /\ op.outcome \in {"error", "throw"})
           => /\ seen[1].chatHistory = <<>>
              /\ seen[1].formatted = sentinel

\* a failed read for a user who has stored turns
C22_Witness ==
  /\ op.name = "getChatHistory"
  /\ op.outcome = "throw"
  /\ Len(seen[1].stored) > 0
  /\ seen[1].formatted = <<"N","e","w"," ","c","o","n","v","e","r","s","a","t","i","o","n"," ","-"," ","n","o"," ","p","r","e","v","i","o","u","s"," ","c","o","n","t","e","x","t",".">>

\* the recent-messages block of a formatted memory: what stands between the
\* heading 'Recent messages:' and the final line break
RecentBlock(formatted) ==
  LET heading == <<"\n","R","e","c","e","n","t"," ","m","e","s","s","a","g","e","s",":","\n">>
      at == CHOOSE i \in DOMAIN formatted :
              /\ OccursAt(formatted, heading, i)
              /\ \A j \in 1..(i - 1) : ~OccursAt(formatted, heading, j)
  IN  SubSeq(formatted, at + Len(heading), Len(formatted) - 1)

\* what the block shows of each of the last ten turns: 'role: message', a
\* message of more than 100 characters cut to its first 100 and followed
\* by '...'
RecentEntries(chatHistory) ==
  LET n == Len(chatHistory)
      m == IF n < 10 THEN n ELSE 10
      Entry(chat) ==
        chat.role \o <<":"," ">>
          \o (IF Len(chat.message) > 100
                THEN SubSeq(chat.message, 1, 100) \o <<".",".",".">>
                ELSE chat.message)
  IN  [i \in 1..m |-> Entry(chatHistory[n - m + i])]

\* C23 as stated: for a history of n > 0 turns the recent-messages block has
\* exactly min(n, 10) lines, the i-th being 'role: message' of the i-th of
\* the last ten turns, the message cut to 100 characters and '...' when it
\* is longer.
C23_OneLinePerRecentTurn ==
  (op.name = "formatChatHistoryForAI" /\ Len(seen[1].chatHistory) > 0) =>
    split(RecentBlock(seen[1].formatted), "\n")
      = RecentEntries(seen[1].chatHistory)

\* C23: for a history of n > 0 turns the recent-messages block is the
\* min(n, 10) entries 'role: message' of the last ten turns, oldest first and
\* separated by line breaks, the message cut to 100 characters and '...'
\* when it is longer; a line break inside a message is kept, so that such an
\* entry takes several lines.
C23_OneEntryPerRecentTurn ==
  (op.name = "formatChatHistoryForAI" /\ Len(seen[1].chatHistory) > 0) =>
    RecentBlock(seen[1].formatted)
      = join(RecentEntries(seen[1].chatHistory), <<"\n">>)

\* ten turns, the oldest an assistant message of three lines and the newest
\* a user message of 101 characters: ten entries on twelve lines
C23_Witness ==
  /\ op.name = "formatChatHistoryForAI"
  /\ Len(seen[1].chatHistory) = 10
  /\ seen[1].chatHistory[1].role = AssistantRole
  /\ Len(seen[1].chatHistory[10].message) = 101
  /\ Len(split(RecentBlock(seen[1].formatted), "\n")) = 12
  /\ OccursAt(seen[1].formatted, <<"x",".",".",".","\n">>, Len(seen[1].formatted) - 4)

\* C24: the 'Context:' line is computed from the user turns of the whole
\* history: the child age is the first age-pattern match of the oldest user
\* turn that has one, the interests are the first three distinct keywords of
\* the interest list met when the user turns are scanned from the oldest
\* (within a turn in the order of the list); assistant turns add nothing, and
\* a clause that found nothing is left out.
C24_SummaryFromAllUserTurns ==
  (op.name = "formatChatHistoryForAI" /\ Len(seen[1].chatHistory) > 0) =>
    LET h == seen[1].chatHistory
        userTurns == {i \in DOMAIN h : h[i].role = <<"u","s","e","r">>}
        HasAge(i) == matchAge(h[i].message, ChildAgeUnits) # None
        aged == {i \in userTurns : HasAge(i)}
        ageClause ==
          IF aged = {} THEN <<>>
          ELSE LET i == CHOOSE x \in aged : \A y \in aged : x <= y
                   match == matchAge(h[i].message, ChildAgeUnits)[1]
               IN  <<"C","h","i","l","d"," ","a","g","e",":"," ">> \o match[1] \o <<" ">>
                     \o toLowerCase(match[2]) \o <<"."," ">>
        MentionedIn(i) ==
          LET text == toLowerCase(h[i].message)
              Mentioned(keyword) == includes(text, keyword)
          IN  IF i \in userTurns
                THEN SelectSeq(InterestKeywords, Mentioned) ELSE <<>>
        mentioned == <<>> \o [i \in DOMAIN h |-> MentionedIn(i)]
        named == {k \in DOMAIN InterestKeywords :
                    \E i \in DOMAIN h : Contains(mentioned[i], InterestKeywords[k])}
        FirstTurn(k) ==
          CHOOSE i \in DOMAIN h :
            /\ Contains(mentioned[i], InterestKeywords[k])
            /\ \A j \in 1..(i - 1) : ~Contains(mentioned[j], InterestKeywords[k])
        Before(k, l) == \/ FirstTurn(k) < FirstTurn(l)
                        \/ FirstTurn(k) = FirstTurn(l) /\ k < l
        Rank(k) == Cardinality({l \in named : Before(l, k)}) + 1
        shown == {k \in named : Rank(k) <= 3}
        interests == [r \in 1..Cardinality(shown) |->
                        InterestKeywords[CHOOSE k \in shown : Rank(k) = r]]
        interestClause ==
          IF named = {} THEN <<>>
          ELSE <<"I","n","t","e","r","e","s","t","s",":"," ">> \o join(interests, <<",", " ">>) \o <<".", " ">>
    IN  startsWith(seen[1].formatted,
                   <<"C","o","n","t","e","x","t",":"," ">> \o ageClause \o interestClause
                     \o <<"\n","R","e","c","e","n","t"," ","m","e","s","s","a","g","e","s",":","\n">>)

\* twelve turns: the oldest, outside the recent block, is the user turn that
\* gives the age and the first interest; the newest names five more keywords
C24_Witness ==
  /\ op.name = "formatChatHistoryForAI"
  /\ Len(seen[1].chatHistory) = 12
  /\ seen[1].chatHistory[12].message = <<"p","u","z","z","l","e",","," ","d","o","l","l",","," ","e","d","u","c","a","t","i","o","n","a","l"," ","t","o","y"," ","a","n","d"," ","m","u","s","i","c","a","l"," ","c","a","r">>
  /\ startsWith(seen[1].formatted,
                <<"C","o","n","t","e","x","t",":"," ","C","h","i","l","d"," ","a","g","e",":"," ","3"," ","y","e","a","r","."," ","I","n","t","e","r","e","s","t","s",":"," ","c","a","r",","," ","e","d","u","c","a","t","i","o","n","a","l",","," ","p","u","z","z","l","e","."," ","\n">>)

\* C26: a failed refresh leaves the entry as it was, old expiry included, so
\* that an expired entry is reported 'expired' and every call made while it
\* is expired invokes the loader; a successful load stores a new entry that
\* expires one TTL after the call began, and a call made before an entry's
\* expiry is a hit.
C26_StaleEntryNotRenewed ==
  [][LET expired == contextCache # None /\ clock >= contextCache[1].expires
         settled == op'.name = "loaderSettled"
     IN  /\ (settled /\ op'.outcome \in {"null", "reject"})
              => contextCache' = contextCache
         /\ (expired /\ op'.name = "getCacheStatus")
              => seen'[1].status = "expired"
         /\ (expired /\ op'.name = "getCachedContextFiles")
              => op'.outcome = "load" /\ pc'[op'.proc] = "loading"
         /\ (settled /\ op'.outcome = "data")
              => /\ contextCache' # None
                 /\ contextCache'[1].data = ret'.value[1]
                 /\ contextCache'[1].expires = callNow[op'.proc] + CACHE_TTL
         /\ (contextCache # None /\ ~expired /\ op'.name = "getCachedContextFiles")
              => op'.outcome = "hit"]_vars

\* a refresh of an expired entry has failed: the stale data was served and
\* the entry is still expired
C26_Witness ==
  /\ op.name = "loaderSettled"
  /\ op.outcome = "null"
  /\ contextCache # None
  /\ clock >= contextCache[1].expires
  /\ ret = Returned(Some(contextCache[1].data))

\* C27: the stored entry always has expires = lastModified + CACHE_TTL, and
\* as long as the cache is not cleared its lastModified and expires never
\* decrease: a call that began earlier and finishes later does not replace a
\* newer entry by an older one.
C27_ExpiryNeverMovesBack ==
  [][/\ contextCache' # None
          => contextCache'[1].expires = contextCache'[1].lastModified + CACHE_TTL
     /\ (contextCache # None /\ contextCache' # None)
          => /\ contextCache'[1].expires >= contextCache[1].expires
             /\ contextCache'[1].lastModified >= contextCache[1].lastModified]_vars

\* C25: whenever the warm-cache handler answers 200 'Cache warmed
\* successfully', the context cache holds an entry that has not expired
\* (getCacheStatus reports 'valid' and the next getCachedContextFiles call
\* is a hit), the product index is the one built from that entry's product
\* catalog, and with force the data came from the loader this request
\* invoked.
C25_WarmedMeansBothCachesWarm ==
  (op.name = "warmCache" /\ seen # None /\ seen[1].status = 200) =>
    /\ contextCache # None
    /\ CacheStatus(contextCache, clock).status = "valid"
    /\ IsHit(contextCache, clock)
    /\ productIndex = Some(buildProductIndex(contextCache[1].data.product))
    /\ seen[1].force => seen[1].source = "loaded"

\* the rows of the chats table that handler p inserted with the given role
RowsOf(p, role) ==
  {i \in DOMAIN chats : chats[i].request = p /\ chats[i].role = role}

\* C28: in a successful ai-chat request the history is read before the
\* current message is saved, so the formatted memory never holds the message
\* being answered; the user message is persisted before the LLM is called and
\* the reply after it returns; a 200 needs both rows, in that order; the LLM
\* is called at most once, and never when saving the user message failed.
C28_HistoryThenUserRowThenLlmThenReplyRow ==
  \A p \in DOMAIN req :
    LET r == req[p]
        asked == RowsOf(p, UserRole)
        answered == RowsOf(p, AssistantRole)
    IN  /\ asked # {} =>
             /\ r.history # None /\ r.memory # None
             /\ \A i \in DOMAIN r.history[1] : r.history[1][i].request # p
             /\ r.memory[1] = formatChatHistoryForAI(r.history[1])
        /\ r.llmCalls > 0 => asked # {}
        /\ r.llmCalls <= 1
        /\ r.error = "Failed to save user message" =>
             r.llmCalls = 0 /\ asked = {} /\ answered = {}
        /\ answered # {} =>
             /\ r.reply # None
             /\ \A j \in answered :
                  /\ chats[j].message = r.reply[1]
                  /\ \E i \in asked : i < j
        /\ r.status = 200 =>
             /\ Cardinality(asked) = 1 /\ Cardinality(answered) = 1
             /\ \A i \in asked : chats[i].message = r.message
             /\ \A i \in asked, j \in answered : i < j

\* a request answered with 200 whose memory was built from an earlier
\* conversation
C28_Witness ==
  \E p \in DOMAIN req :
    /\ req[p].status = 200
    /\ Len(req[p].history[1]) = 2
    /\ req[p].memory[1] # NewConversation
    /\ Len(chats) = 4

\* C29: when the context files come back null the handler answers 500
\* 'Failed to load system context' with no chat row of its own persisted and
\* the LLM not called; a request that is no POST is answered 405, one without
\* userId or message 400, each in the step that receives it, with no user
\* created, no message saved and neither cache touched.
C29_NoContextOrBadRequestLeavesNoTrace ==
  [][\A p \in DOMAIN req :
       LET r == req'[p]
       IN  /\ r.context = Returned(None) =>
                /\ r.pc \in {"loading", "done"}
                /\ r.pc = "done" =>
                     r.status = 500 /\ r.error = "Failed to load system context"
                /\ r.llmCalls = 0
                /\ \A i \in DOMAIN chats' : chats'[i].request # p
           /\ (req[p].pc = "idle" /\ r.pc # "idle"
               /\ (r.method # "POST" \/ r.userId = <<>> \/ r.message = <<>>)) =>
                /\ r.pc = "done"
                /\ r.status = (IF r.method # "POST" THEN 405 ELSE 400)
                /\ r.context = NotCalled /\ r.history = None
                /\ UNCHANGED <<users, chats, cacheVars, indexVars>>
    ]_vars

\* a request of a new user that found no context files after its history was
\* read and its user row created
C29_Witness ==
  \E p \in DOMAIN req :
    /\ req[p].error = "Failed to load system context"
    /\ req[p].context = Returned(None)
    /\ req[p].history # None
    /\ req[p].userId \in users
    /\ chats = <<>>

\* C30: two ai-chat requests that carry the same new, valid userId and run
\* together against a healthy store never see the 500 'Failed to create or
\* retrieve user'; when both have completed one users row exists and both
\* built a prompt.
C30_SameNewUserBothProceed ==
  /\ \A p \in DOMAIN req :
       req[p].error # "Failed to create or retrieve user"
  /\ (\A p \in DOMAIN req : req[p].pc = "done") =>
       /\ Cardinality(users) = 1
       /\ \A p \in DOMAIN req : req[p].memory # None

====
